---- MODULE Spec2Model ----
(***************************************************************************)
(* Real-time synchronisation and presence subsystem of DEVsync:            *)
(*   - BasicOtEngine (backend/src/ot-engine): per-document version cache   *)
(*     and full-content-replace operations persisted in Project.files;     *)
(*   - collaboration socket handlers (backend/src/sockets/                 *)
(*     collaborationHandlers.ts): collab:join-file, collab:leave-file,     *)
(*     collab:edit;                                                        *)
(*   - presence socket handlers (backend/src/sockets, presenceHandlers):   *)
(*     presence:join-room, leave-room, update-status, typing, cursor and   *)
(*     the disconnect sweep.                                               *)
(*                                                                         *)
(* Handlers are async functions on a single-threaded event loop: a handler *)
(* runs atomically up to an await on database I/O, and other handlers may  *)
(* run while it is suspended.  Every suspended handler is a task record;   *)
(* one action resumes it from one database completion to the next.         *)
(***************************************************************************)
EXTENDS Integers, Sequences, FiniteSets, TLC

\* ------------------------------------------------------------------------
\* Bounds of the model
\* ------------------------------------------------------------------------
MaxVersion == 2
MaxTasks == 2
MaxOps == 3
MaxMessages == 5
MaxTime == 1
MaxIdLen == 3
MaxTyped == 1

\* PRESENCE_CLEANUP_INTERVAL (5 minutes); the clock `now` counts in units of
\* this interval.
PRESENCE_CLEANUP_INTERVAL == 1

\* ------------------------------------------------------------------------
\* Connections and their attached identity (socketAuth.ts)
\* ------------------------------------------------------------------------
Conns == {"c1", "c2", "c3"}

\* Handshake credentials: "" is a missing token, "bad" fails jwt.verify
\* (forged or expired), "nosub" verifies but its payload has no sub,
\* "tok-u1" and "tok-u2" are tokens of the users u1 and u2, and "tok-anon"
\* is a token of u2 whose displayName is blank.
TokenInputs == {"", "bad", "nosub", "tok-u1", "tok-u2", "tok-anon"}

\* jwt.verify throws on a forged or expired token
VerifyThrows(token) == token = "bad"

\* verifyAccessToken: the payload of a token that verifies
verifyAccessToken(token) ==
  IF token = "tok-u1" THEN [sub |-> "u1", displayName |-> "Ann"]
  ELSE IF token = "tok-u2" THEN [sub |-> "u2", displayName |-> "Bob"]
  ELSE IF token = "tok-anon" THEN [sub |-> "u2", displayName |-> ""]
  ELSE [sub |-> "", displayName |-> ""]

\* socket.user before the middleware has attached an identity
NoUser == [sub |-> "", displayName |-> ""]

\* (variant) the payload's sub is not checked
socketAuthMiddlewareNoSubCheck(token) ==
  IF token = "" THEN [err |-> "Authentication required", user |-> NoUser]
  ELSE IF VerifyThrows(token)
    THEN [err |-> "Invalid or expired token", user |-> NoUser]
  ELSE [err |-> "", user |-> verifyAccessToken(token)]

\* socketAuthMiddleware: next(err) with the error message, or next() with
\* socket.user attached; a blank displayName falls back to sub.slice(-8),
\* which is the whole of a short user id.
socketAuthMiddleware(token) ==
  IF token = "" THEN [err |-> "Authentication required", user |-> NoUser]
  ELSE IF VerifyThrows(token)
    THEN [err |-> "Invalid or expired token", user |-> NoUser]
  ELSE LET payload == verifyAccessToken(token) IN
       IF payload.sub = ""
       THEN [err |-> "Invalid token: missing user ID", user |-> NoUser]
       ELSE [err |-> "",
             user |-> [sub |-> payload.sub,
                       displayName |-> IF payload.displayName # ""
                                       THEN payload.displayName
                                       ELSE payload.sub]]

\* The token each connection presented; c1 and c3 are two connections of
\* the same user.
TokenOf(c) == IF c = "c2" THEN "tok-u2" ELSE "tok-u1"

\* the connections that take part in document collaboration
CollabConns == {"c1", "c2"}

\* charCodeAt of the characters of a user id
CharCodes(userId) == IF userId = "u1" THEN <<117, 49>> ELSE <<117, 50>>

\* hash << 5: the low 32 bits of hash * 32 read as a signed 32-bit integer
\* (only the low 27 bits of hash survive the shift).
Shl5(hash) ==
  LET low == hash % 134217728
  IN  IF low >= 67108864 THEN (low - 134217728) * 32 ELSE low * 32

Abs(n) == IF n < 0 THEN 0 - n ELSE n

colors ==
  << "#ef4444", "#f97316", "#eab308", "#22c55e", "#3b82f6",
     "#8b5cf6", "#ec4899", "#14b8a6", "#f59e0b", "#06b6d4" >>

RECURSIVE HashLoop(_, _, _)
HashLoop(codes, i, hash) ==
  IF i > Len(codes) THEN hash
  ELSE HashLoop(codes, i + 1, codes[i] + (Shl5(hash) - hash))

generateUserColor(userId) ==
  colors[(Abs(HashLoop(CharCodes(userId), 1, 0)) % Len(colors)) + 1]

\* ------------------------------------------------------------------------
\* Client inputs
\* ------------------------------------------------------------------------
\* Identifiers a client may put in a payload: "" is a missing/empty id,
\* "zz" is a string that is not a valid ObjectId, the others are valid.
\* p1 holds the files f1 and f2; p2 and f3 name nothing in the store.
RefInputs ==
  { <<"", "f1">>, <<"zz", "f1">>, <<"p1", "f1">>, <<"p1", "f2">>,
    <<"p2", "f1">>, <<"p1", "f3">> }
ValidObjectIds == {"p1", "p2", "f1", "f2", "f3"}

isValidObjectId(id) == id \in ValidObjectIds

\* JavaScript values carried by a payload field, tagged with their typeof.
\* A value is the triple << typeof, numeric value, string value >>.
JsNum(n) == <<"number", n, "">>
JsStr(s) == <<"string", 0, s>>
\* an object with a string `content` property
JsObj(s) == <<"object", 0, s>>
JsUndefined == <<"undefined", 0, "">>

TypeOf(v) == v[1]
\* the number a value of type number holds
NumberOf(v) == v[2]
\* the string a string holds, or the `content` of an object
StringOf(v) == v[3]

VersionInputs == {JsNum(n) : n \in -1 .. MaxVersion} \cup {JsStr("two")}

\* ------------------------------------------------------------------------
\* Room keys
\* ------------------------------------------------------------------------
getRoomKey(projectId, fileId) == <<"file", projectId, fileId>>
getPresenceRoomKey(projectId) == <<"room", projectId>>

\* (variant) the cursor fan-out addressed to the project's roster room
getFileRoomKeyProjectWide(projectId, fileId) == <<"room", projectId>>

\* getFileRoomKey of the presence handlers: the same key as getRoomKey
getFileRoomKey(projectId, fileId) == <<"file", projectId, fileId>>

\* BasicOtEngine.key
key(projectId, fileId) == <<projectId, fileId>>

\* ------------------------------------------------------------------------
\* State
\* ------------------------------------------------------------------------
VARIABLES
  user,         \* socket.user of each connection
  handshake,    \* history: the token each connection presented, and how
                \* many times the middleware ran for it
  projects,     \* durable store: project id -> (file id -> content)
  versions,     \* BasicOtEngine.versions: key -> version
  rooms,        \* socket.io adapter rooms: room key -> set of connections
  connected,    \* connection -> is the socket still connected
  tasks,        \* suspended handlers, by slot
  roomUsers,    \* presence store: room key -> Map userId -> UserPresence
  now,          \* clock read by new Date()
  sent,         \* events emitted by the last step
  lastOp,       \* the handler step that produced the current state
  maxBroadcast, \* history: highest version broadcast so far, per key
  nStarted,     \* history: number of client messages counted against MaxOps
  scenario,     \* history: per key, progress of "edit 1 then edit 2 alone"
  server,       \* the server process: its phase ("listening", "closing",
                \* "exited"), the connections open when the signal came
                \* and, history, those sent the shutdown notice since
  inbox,        \* connection -> events on their way to a mounted useCollab
  editor,       \* connection -> state of the useCollab hook and its editor
  userId,       \* the user id whose display color is computed
  color         \* party -> the color it computed for userId ("" before)

vars == << user, handshake, projects, versions, rooms, connected, tasks, roomUsers, now,
           sent, lastOp, maxBroadcast, nStarted, scenario, server, inbox,
           editor, userId, color >>

\* socket.user of a connection
SocketUser(c) == user[c]

NoTask ==
  [kind |-> "idle", pc |-> "idle", conn |-> "", projectId |-> "",
   fileId |-> "", currentVersion |-> 0, version |-> 0, content |-> ""]

\* lastOp: which handler step ran, for which connection and ids, the version
\* and content it worked with, whether it succeeded, and an argument of the
\* step: the version value the client sent (collab:edit), whether the
\* connection was in the room already (a completed collab:join-file), the
\* user id the payload claims (presence:cursor), the token (handshake).
Op(name, c, projectId, fileId, version, content, ok) ==
  [op |-> name, conn |-> c, projectId |-> projectId, fileId |-> fileId,
   version |-> version, content |-> content, ok |-> ok, arg |-> JsUndefined]

NoOp == Op("init", "", "", "", 0, "", TRUE)

\* ------------------------------------------------------------------------
\* Emitted events.  `fields` lists the properties the emitted object has;
\* a property that is not listed is undefined at the receiver.
\* ------------------------------------------------------------------------
Event(ev, to, fields) ==
  [ev |-> ev, to |-> to, fields |-> fields, projectId |-> "",
   fileId |-> "", version |-> 0, content |-> "", userId |-> "",
   displayName |-> "", color |-> "", message |-> "", users |-> << >>,
   cursor |-> << >>, status |-> "", isTyping |-> FALSE, cutoff |-> 0]

CollabError(c, message) ==
  [Event("collab:error", c, {"message"}) EXCEPT !.message = message]

Joined(c, projectId, fileId, content) ==
  [Event("collab:joined", c,
         {"projectId", "fileId", "content", "userId", "displayName",
          "color"})
   EXCEPT !.projectId = projectId, !.fileId = fileId, !.content = content,
          !.userId = SocketUser(c).sub,
          !.displayName = SocketUser(c).displayName,
          !.color = generateUserColor(SocketUser(c).sub)]

UserJoined(to, c, projectId, fileId) ==
  [Event("collab:user-joined", to,
         {"projectId", "fileId", "userId", "displayName", "color"})
   EXCEPT !.projectId = projectId, !.fileId = fileId,
          !.userId = SocketUser(c).sub,
          !.displayName = SocketUser(c).displayName,
          !.color = generateUserColor(SocketUser(c).sub)]

UserLeft(to, c, projectId, fileId) ==
  [Event("collab:user-left", to, {"projectId", "fileId", "userId"})
   EXCEPT !.projectId = projectId, !.fileId = fileId,
          !.userId = SocketUser(c).sub]

RemoteEdit(to, c, projectId, fileId, version, content) ==
  [Event("collab:remote-edit", to,
         {"projectId", "fileId", "version", "content", "userId",
          "displayName", "color"})
   EXCEPT !.projectId = projectId, !.fileId = fileId, !.version = version,
          !.content = content, !.userId = SocketUser(c).sub,
          !.displayName = SocketUser(c).displayName,
          !.color = generateUserColor(SocketUser(c).sub)]

Ack(c, projectId, fileId, version) ==
  [Event("collab:ack", c, {"projectId", "fileId", "version"})
   EXCEPT !.projectId = projectId, !.fileId = fileId, !.version = version]

PresenceError(c, message) ==
  [Event("presence:error", c, {"message"}) EXCEPT !.message = message]

\* (variant) offline entries are left out of the broadcast
RoomUsersEventOnlineOnly(to, projectId, entries) ==
  [Event("presence:room-users", to, {"projectId", "users"})
   EXCEPT !.projectId = projectId,
          !.users = LET on == SelectSeq(entries,
                                        LAMBDA u : u.status # "offline")
                    IN  [n \in 1 .. Len(on) |->
                           [id |-> on[n].id,
                            displayName |-> on[n].displayName]]]

\* presence:room-users carries the minimal shape {id, displayName} per entry
RoomUsersEvent(to, projectId, entries) ==
  [Event("presence:room-users", to, {"projectId", "users"})
   EXCEPT !.projectId = projectId,
          !.users = [n \in 1 .. Len(entries) |->
                       [id |-> entries[n].id,
                        displayName |-> entries[n].displayName]]]

TypingEvent(to, c, projectId, isTyping) ==
  [Event("presence:typing", to, {"projectId", "userId", "isTyping"})
   EXCEPT !.projectId = projectId, !.userId = SocketUser(c).sub,
          !.isTyping = isTyping]

\* presence:update names the user `who` ({sub, displayName}) the handler
\* took the identity from
PresenceUpdate(to, who, projectId, fileId, cursor) ==
  [Event("presence:update", to,
         {"projectId", "fileId", "userId", "displayName", "color", "cursor",
          "status"})
   EXCEPT !.projectId = projectId, !.fileId = fileId,
          !.userId = who.sub,
          !.displayName = who.displayName,
          !.color = generateUserColor(who.sub),
          !.cursor = cursor, !.status = "online"]

CursorUpdate(to, c, projectId, fileId, cursor) ==
  [Event("collab:cursor-update", to,
         {"projectId", "fileId", "userId", "displayName", "color", "cursor"})
   EXCEPT !.projectId = projectId, !.fileId = fileId,
          !.userId = SocketUser(c).sub,
          !.displayName = SocketUser(c).displayName,
          !.color = generateUserColor(SocketUser(c).sub),
          !.cursor = cursor]

CleanupOffline(to, cutoff) ==
  [Event("presence:cleanup-offline", to, {"cutoff"}) EXCEPT !.cutoff = cutoff]

\* the CONNECT_ERROR packet socket.io sends for next(err)
ConnectError(to, message) ==
  [Event("connect_error", to, {"message"}) EXCEPT !.message = message]

\* ------------------------------------------------------------------------
\* socket.io rooms
\* ------------------------------------------------------------------------
Members(roomKey) == IF roomKey \in DOMAIN rooms THEN rooms[roomKey] ELSE {}

\* (variant) the member set of the room is created anew for the joiner
RoomsJoinReplace(c, roomKey) == (roomKey :> {c}) @@ rooms

\* socket.join(roomKey)
RoomsJoin(c, roomKey) == (roomKey :> (Members(roomKey) \cup {c})) @@ rooms

\* (variant) the socket is not taken out of the room
RoomsLeaveKeep(c, roomKey) == rooms

\* socket.leave(roomKey); the adapter deletes a room that becomes empty
RoomsLeave(c, roomKey) ==
  LET keep == {k \in DOMAIN rooms : k # roomKey \/ rooms[k] \ {c} # {}}
  IN  [k \in keep |-> IF k = roomKey THEN rooms[k] \ {c} ELSE rooms[k]]

\* io.to(roomKey): every socket in the room
IoTo(r, roomKey) == IF roomKey \in DOMAIN r THEN r[roomKey] ELSE {}

\* socket.to(roomKey): every socket in the room except the sender
SocketTo(r, c, roomKey) == IoTo(r, roomKey) \ {c}

\* ------------------------------------------------------------------------
\* Durable store (Project collection)
\* ------------------------------------------------------------------------
ProjectExists(projectId) == projectId \in DOMAIN projects

FileExists(projectId, fileId) ==
  ProjectExists(projectId) /\ fileId \in DOMAIN projects[projectId]

\* ------------------------------------------------------------------------
\* Task slots
\* ------------------------------------------------------------------------
Slots == 1 .. MaxTasks
FreeSlots == {i \in Slots : tasks[i].kind = "idle"}
HasFreeSlot == FreeSlots # {}
FirstFree == CHOOSE i \in FreeSlots : \A j \in FreeSlots : i <= j

Max(a, b) == IF a >= b THEN a ELSE b

\* ------------------------------------------------------------------------
\* Frontend (useCollab) state of a connection and the events on their way
\* to it
\* ------------------------------------------------------------------------
Parties == {"presence", "collab", "PresenceBar", "useCollab"}

\* No hook is mounted on the connection: a bare socket.io client.
NoEditor ==
  [mounted |-> FALSE, fileId |-> "", version |-> 0, value |-> "",
   timer |-> FALSE, typed |-> 0, edits |-> 0]

\* The hook is mounted for project p1 with no active file; the editor
\* shows an empty model.
MountedEditor == [NoEditor EXCEPT !.mounted = TRUE]

\* The events of one step that useCollab listens to, in the order the
\* handler emits them to connection c: collab:joined, collab:remote-edit,
\* then collab:ack.
RECURSIVE ToSeq(_, _)
ToSeq(names, events) ==
  IF names = << >> THEN << >>
  ELSE LET here == {e \in events : e.ev = Head(names)} IN
       (IF here = {} THEN << >> ELSE << CHOOSE e \in here : TRUE >>) \o
       ToSeq(Tail(names), events)

Carried(c, events) ==
  ToSeq(<< "collab:joined", "collab:remote-edit", "collab:ack" >>,
        {e \in events : e.to = c})

\* startServer: the HTTP server listens, no signal has been received.
Listening == [phase |-> "listening", openAtSignal |-> {}, noticed |-> {}]

\* Process and frontend parts of the initial state.
InitRest ==
  /\ server = Listening
  /\ inbox = [c \in Conns |-> << >>]
  /\ editor = [c \in Conns |-> NoEditor]
  /\ userId = << >>
  /\ color = [party \in Parties |-> ""]

\* ------------------------------------------------------------------------
\* Initial state: server started, every connection has passed the
\* handshake with its token and has its handlers registered, one
\* project p1 with two empty files f1 and f2; p2 and f3 name nothing.
\* ------------------------------------------------------------------------
Init ==
  /\ user = [c \in Conns |-> socketAuthMiddleware(TokenOf(c)).user]
  /\ handshake = [c \in Conns |-> [token |-> TokenOf(c), runs |-> 1]]
  /\ projects = ("p1" :> [f \in {"f1", "f2"} |-> ""])
  /\ versions = << >>
  /\ rooms = << >>
  /\ connected = [c \in Conns |-> TRUE]
  /\ tasks = [i \in Slots |-> NoTask]
  /\ roomUsers = << >>
  /\ now = 0
  /\ sent = {}
  /\ lastOp = NoOp
  /\ maxBroadcast = [k \in {key("p1", "f1"), key("p1", "f2")} |-> 0]
  /\ nStarted = 0
  /\ scenario = [k \in {key("p1", "f1"), key("p1", "f2")} |-> "none"]
  /\ InitRest

\* ========================================================================
\* Collaboration handlers (collaborationHandlers.ts) and BasicOtEngine
\* ========================================================================

\* Validation shared by collab:join-file and collab:edit: the error message
\* of the first failing check, "" when the ids pass.
IdError(c, projectId, fileId) ==
  IF SocketUser(c).sub = "" THEN "Authentication required"
  ELSE IF projectId = "" \/ fileId = "" THEN "Invalid project or file id"
  ELSE IF ~isValidObjectId(projectId) \/ ~isValidObjectId(fileId)
    THEN "Invalid ObjectId format"
  ELSE ""

\* A step of the server: what it emitted to a connection with a mounted hook
\* is queued for that connection, in order; the process keeps running.
Wire(op) ==
  /\ lastOp' = op
  /\ inbox' = [c \in Conns |->
                IF editor[c].mounted THEN inbox[c] \o Carried(c, sent')
                ELSE inbox[c]]
  /\ server' = [server EXCEPT !.noticed =
                  @ \cup {e.to : e \in {x \in sent' :
                                          x.ev = "server:shutdown"}}]
  /\ UNCHANGED << userId, color >>

\* A step of the server that no frontend takes part in.
Record(op) == Wire(op) /\ UNCHANGED editor

\* versions.get(key) ?? 0
CurrentVersion(k) == IF k \in DOMAIN versions THEN versions[k] ELSE 0

\* History of the handlers that touched a key: "none" until the first one;
\* "first" while an edit {version 1, "a"} started on the untouched key is in
\* flight and "one" once it committed; "second" while an edit {version 2,
\* "ab"} started after that commit is in flight and "two" once it committed;
\* "other" as soon as any other join or edit on the key starts or an edit
\* on it fails.
ScenarioStart(k, isEdit, currentVersion, version, content) ==
  IF k \notin DOMAIN scenario THEN scenario
  ELSE [scenario EXCEPT ![k] =
          IF isEdit /\ @ = "none" /\ version = 1 /\ content = "a"
            THEN "first"
          ELSE IF isEdit /\ @ = "one" /\ currentVersion = 1 /\ version = 2
                  /\ content = "ab"
            THEN "second"
          ELSE "other"]

ScenarioCommit(k) ==
  [scenario EXCEPT ![k] = IF @ = "first" THEN "one"
                          ELSE IF @ = "second" THEN "two" ELSE @]

ScenarioFail(k) ==
  IF k \notin DOMAIN scenario THEN scenario
  ELSE [scenario EXCEPT ![k] = "other"]

\* --- collab:join-file -----------------------------------------------------

\* The handler up to its first database wait.  hydrate() returns at once
\* when the key is cached; otherwise it waits for Project.findById.
JoinFileMessage(c, projectId, fileId) ==
  /\ connected[c]
  /\ LET err == IdError(c, projectId, fileId) IN
     IF err # ""
     THEN /\ sent' = {CollabError(c, err)}
          /\ Wire(Op("join-file:invalid", c, "", "", 0, "", FALSE))
          /\ UNCHANGED << tasks, nStarted, scenario >>
     ELSE /\ HasFreeSlot
          /\ nStarted < MaxOps
          /\ nStarted' = nStarted + 1
          /\ scenario' = ScenarioStart(key(projectId, fileId), FALSE, 0, 0,
                                       "")
          /\ tasks' = [tasks EXCEPT ![FirstFree] =
               [kind |-> "join",
                pc |-> IF key(projectId, fileId) \in DOMAIN versions
                       THEN "snapshot" ELSE "hydrate",
                conn |-> c, projectId |-> projectId, fileId |-> fileId,
                currentVersion |-> 0, version |-> 0, content |-> ""]]
          /\ sent' = {}
          /\ Wire(Op("join-file:start", c, projectId, fileId, 0, "", TRUE))
  /\ UNCHANGED << user, handshake, projects, versions, rooms, connected, roomUsers, now,
                  maxBroadcast >>

\* collab:join-file sent by a bare socket.io client
JoinFile(c, projectId, fileId) ==
  JoinFileMessage(c, projectId, fileId) /\ UNCHANGED editor

\* (variant) the error is logged and swallowed
CatchJoinSilent(c) == {}

\* The catch block of the collab:join-file handler
CatchJoin(c) == {CollabError(c, "Failed to join file")}

\* (variant) the entry is created before the document is looked for
HydrateAlways(k, found) == (k :> 0) @@ versions

\* BasicOtEngine.hydrate after Project.findById resolves.
Hydrate(k, found) == IF found THEN (k :> 0) @@ versions ELSE versions

JoinHydrated(i) ==
  LET t == tasks[i]
      found == FileExists(t.projectId, t.fileId)
  IN
  /\ t.kind = "join" /\ t.pc = "hydrate"
  /\ versions' = Hydrate(key(t.projectId, t.fileId), found)
  /\ IF found
     THEN /\ tasks' = [tasks EXCEPT ![i].pc = "snapshot"]
          /\ sent' = {}
     ELSE /\ tasks' = [tasks EXCEPT ![i] = NoTask]
          /\ sent' = CatchJoin(t.conn)
  /\ Record(Op("join-file:hydrated", t.conn, t.projectId, t.fileId, 0, "",
               found))
  /\ UNCHANGED << user, handshake, projects, rooms, connected, roomUsers,
                  now, maxBroadcast, nStarted, scenario >>

\* BasicOtEngine.getSnapshot: the query of Project.findById(...).lean() is
\* answered by the store; the handler resumes in JoinDeliver.
JoinSnapshotRead(i) ==
  LET t == tasks[i]
      found == FileExists(t.projectId, t.fileId)
  IN
  /\ t.kind = "join" /\ t.pc = "snapshot"
  /\ IF found
     THEN /\ tasks' = [tasks EXCEPT ![i].pc = "deliver",
                                    ![i].content =
                                       projects[t.projectId][t.fileId],
                                    ![i].currentVersion =
                                       CurrentVersion(key(t.projectId,
                                                          t.fileId))]
          /\ sent' = {}
     ELSE /\ tasks' = [tasks EXCEPT ![i] = NoTask]
          /\ sent' = CatchJoin(t.conn)
  /\ Record(Op("join-file:read", t.conn, t.projectId, t.fileId, 0,
               IF found THEN projects[t.projectId][t.fileId] ELSE "", found))
  /\ UNCHANGED << user, handshake, projects, versions, rooms, connected, roomUsers, now,
                  maxBroadcast, nStarted, scenario >>

\* (variant) user-joined emitted with io.to: the joiner is notified as well
JoinNotifiedAll(r, c, roomKey) == IoTo(r, roomKey)

\* socket.to(roomKey).emit('collab:user-joined', ...)
JoinNotified(r, c, roomKey) == SocketTo(r, c, roomKey)

\* The rest of the handler: join the room, snapshot to the joiner,
\* user-joined to the others.  The task's currentVersion keeps, as history,
\* the engine's version at the moment the content was read.
JoinDeliver(i) ==
  LET t == tasks[i]
      roomKey == getRoomKey(t.projectId, t.fileId)
  IN
  /\ t.kind = "join" /\ t.pc = "deliver"
  /\ rooms' = RoomsJoin(t.conn, roomKey)
  /\ sent' = {Joined(t.conn, t.projectId, t.fileId, t.content)} \cup
             {UserJoined(to, t.conn, t.projectId, t.fileId) :
                to \in JoinNotified(rooms', t.conn, roomKey)}
  /\ tasks' = [tasks EXCEPT ![i] = NoTask]
  /\ Record([Op("join-file:joined", t.conn, t.projectId, t.fileId,
                t.currentVersion, t.content, TRUE)
               EXCEPT !.arg = JsStr(IF t.conn \in Members(roomKey)
                                    THEN "rejoin" ELSE "join")])
  /\ UNCHANGED << user, handshake, projects, versions, connected, roomUsers, now,
                  maxBroadcast, nStarted, scenario >>

\* --- collab:leave-file ----------------------------------------------------
LeaveFile(c, projectId, fileId) ==
  /\ connected[c]
  /\ IF projectId = "" \/ fileId = ""
     THEN /\ UNCHANGED rooms
          /\ sent' = {}
          /\ Record(Op("leave-file:invalid", c, "", "", 0, "", FALSE))
     ELSE /\ rooms' = RoomsLeave(c, getRoomKey(projectId, fileId))
          /\ sent' = {UserLeft(to, c, projectId, fileId) :
                        to \in SocketTo(rooms', c,
                                        getRoomKey(projectId, fileId))}
          /\ Record(Op("leave-file", c, projectId, fileId, 0, "", TRUE))
  /\ UNCHANGED << user, handshake, projects, versions, connected, tasks, roomUsers, now,
                  maxBroadcast, nStarted, scenario >>

\* --- collab:edit ----------------------------------------------------------

\* applyOperation: "Normalize payload into a string snapshot"
NormalizePayload(payload) ==
  IF TypeOf(payload) = "string" THEN StringOf(payload)
  ELSE IF TypeOf(payload) = "object" THEN StringOf(payload)
  ELSE ""

\* (variant) the sign of the version is not checked
InvalidVersionTypeOnly(version) == TypeOf(version) # "number"

\* typeof version !== 'number' || version < 0
InvalidVersion(version) == TypeOf(version) # "number" \/ NumberOf(version) < 0

\* The handler up to the wait on Project.findById inside applyOperation.
EditMessage(c, projectId, fileId, version, payload) ==
  /\ connected[c]
  /\ LET err == IdError(c, projectId, fileId) IN
     IF err # "" \/ InvalidVersion(version)
     THEN /\ sent' = {CollabError(c, IF err # "" THEN err
                                     ELSE "Invalid version")}
          /\ Wire([Op("edit:invalid", c, projectId, fileId, 0, "", FALSE)
                         EXCEPT !.arg = version])
          /\ UNCHANGED << tasks, nStarted, scenario >>
     ELSE /\ HasFreeSlot
          /\ nStarted < MaxOps
          /\ nStarted' = nStarted + 1
          /\ scenario' = ScenarioStart(key(projectId, fileId), TRUE,
                            CurrentVersion(key(projectId, fileId)),
                            NumberOf(version), NormalizePayload(payload))
          /\ CurrentVersion(key(projectId, fileId)) < MaxVersion
          /\ tasks' = [tasks EXCEPT ![FirstFree] =
               [kind |-> "edit", pc |-> "load", conn |-> c,
                projectId |-> projectId, fileId |-> fileId,
                currentVersion |-> CurrentVersion(key(projectId, fileId)),
                version |-> NumberOf(version),
                content |-> NormalizePayload(payload)]]
          /\ sent' = {}
          /\ Wire([Op("edit:start", c, projectId, fileId, NumberOf(version),
                          NormalizePayload(payload), TRUE)
                         EXCEPT !.arg = version])
  /\ UNCHANGED << user, handshake, projects, versions, rooms, connected, roomUsers, now,
                  maxBroadcast >>

\* collab:edit sent by a bare socket.io client
Edit(c, projectId, fileId, version, payload) ==
  EditMessage(c, projectId, fileId, version, payload) /\ UNCHANGED editor

\* (variant) the error is logged and swallowed
CatchEditSilent(c) == {}

\* The catch block of the collab:edit handler
CatchEdit(c) == {CollabError(c, "Failed to apply operation")}

\* Project.findById resolves: "Project not found" / "File not found" are
\* thrown and caught by the handler, otherwise project.save() is issued.
EditLoaded(i) ==
  LET t == tasks[i]
      found == FileExists(t.projectId, t.fileId)
  IN
  /\ t.kind = "edit" /\ t.pc = "load"
  /\ IF found
     THEN /\ tasks' = [tasks EXCEPT ![i].pc = "save"]
          /\ sent' = {}
     ELSE /\ tasks' = [tasks EXCEPT ![i] = NoTask]
          /\ sent' = CatchEdit(t.conn)
  /\ Record(Op("edit:loaded", t.conn, t.projectId, t.fileId, t.version,
               t.content, found))
  /\ UNCHANGED << user, handshake, projects, versions, rooms, connected, roomUsers, now,
                  maxBroadcast, nStarted, scenario >>

\* (variant) the write replaces the content of every file of the record
SaveEveryFile(projectId, fileId, newContent) ==
  [projects EXCEPT ![projectId] = [f \in DOMAIN @ |-> newContent]]

\* project.save() persists the modified path files.<index>: the content of
\* the edited file is replaced, the other files of the record are kept.
Save(projectId, fileId, newContent) ==
  [projects EXCEPT ![projectId][fileId] = newContent]

\* The store applies the write; the handler resumes in EditCommit.
EditSave(i) ==
  LET t == tasks[i] IN
  /\ t.kind = "edit" /\ t.pc = "save"
  /\ projects' = Save(t.projectId, t.fileId, t.content)
  /\ tasks' = [tasks EXCEPT ![i].pc = "saved"]
  /\ sent' = {}
  /\ Record(Op("edit:save", t.conn, t.projectId, t.fileId, t.version,
               t.content, TRUE))
  /\ UNCHANGED << user, handshake, versions, rooms, connected, roomUsers,
                  now, maxBroadcast, nStarted, scenario >>

\* project.save() rejects: nothing is written, the error propagates to the
\* handler's catch.
EditSaveFailed(i) ==
  LET t == tasks[i] IN
  /\ t.kind = "edit" /\ t.pc = "save"
  /\ tasks' = [tasks EXCEPT ![i] = NoTask]
  /\ sent' = CatchEdit(t.conn)
  /\ scenario' = ScenarioFail(key(t.projectId, t.fileId))
  /\ Record(Op("edit:save-failed", t.conn, t.projectId, t.fileId, t.version,
               t.content, FALSE))
  /\ UNCHANGED << user, handshake, projects, versions, rooms, connected, roomUsers, now,
                  maxBroadcast, nStarted >>

\* (variant) the version the client sent is ignored
NewVersionIncrementOnly(currentVersion, opVersion) == currentVersion + 1

\* Math.max(currentVersion + 1, op.version)
NewVersion(currentVersion, opVersion) == Max(currentVersion + 1, opVersion)

\* (variant) remote-edit emitted with socket.to: the sender is left out
EditRecipientsExceptSender(r, c, roomKey) == SocketTo(r, c, roomKey)

\* io.to(roomKey).emit('collab:remote-edit', ...)
EditRecipients(r, c, roomKey) == IoTo(r, roomKey)

\* applyOperation after the save: store the new version, return; the handler
\* broadcasts remote-edit to the room and acks the sender.
EditCommit(i) ==
  LET t == tasks[i]
      k == key(t.projectId, t.fileId)
      newVersion == NewVersion(t.currentVersion, t.version)
      roomKey == getRoomKey(t.projectId, t.fileId)
  IN
  /\ t.kind = "edit" /\ t.pc = "saved"
  /\ versions' = (k :> newVersion) @@ versions
  /\ sent' = {RemoteEdit(to, t.conn, t.projectId, t.fileId, newVersion,
                         t.content) :
                to \in EditRecipients(rooms, t.conn, roomKey)} \cup
             {Ack(t.conn, t.projectId, t.fileId, newVersion)}
  /\ tasks' = [tasks EXCEPT ![i] = NoTask]
  /\ maxBroadcast' = [maxBroadcast EXCEPT ![k] = Max(@, newVersion)]
  /\ scenario' = ScenarioCommit(k)
  /\ Record([Op("edit:commit", t.conn, t.projectId, t.fileId, newVersion,
                t.content, TRUE) EXCEPT !.arg = JsNum(t.version)])
  /\ UNCHANGED << user, handshake, projects, rooms, connected, roomUsers,
                  now, nStarted >>

\* --- BasicOtEngine.dispose -------------------------------------------------

\* (variant) the whole cache is dropped
VersionsClear(k) == << >>

\* this.versions.delete(key)
VersionsDelete(k) == [x \in DOMAIN versions \ {k} |-> versions[x]]

\* dispose(doc), called on the engine by server code; lastOp keeps the
\* version the entry had and whether there was an entry.
Dispose(projectId, fileId) ==
  LET k == key(projectId, fileId) IN
  /\ versions' = VersionsDelete(k)
  /\ sent' = {}
  /\ Record(Op("dispose", "", projectId, fileId, CurrentVersion(k), "",
               k \in DOMAIN versions))
  /\ UNCHANGED << user, handshake, projects, rooms, connected, tasks,
                  roomUsers, now, maxBroadcast, nStarted, scenario >>

\* ========================================================================
\* Presence handlers (presenceHandlers.ts)
\* ========================================================================

\* A JavaScript Map<userId, UserPresence> is the sequence of its entries in
\* insertion order.
NoCursor == << >>
CursorInputs == {<<1, 1>>}
StatusInputs == {"online", "away", "offline", "busy"}

MapHas(m, id) == \E n \in 1 .. Len(m) : m[n].id = id
MapIndex(m, id) == CHOOSE n \in 1 .. Len(m) : m[n].id = id
MapGet(m, id) == m[MapIndex(m, id)]

\* (variant) a store that pushes an entry on every set
MapSetAppend(m, id, entry) == Append(m, entry)

\* Map.prototype.set: replaces the value of an existing key in place,
\* appends a new key
MapSet(m, id, entry) ==
  IF MapHas(m, id) THEN [m EXCEPT ![MapIndex(m, id)] = entry]
  ELSE Append(m, entry)

\* roomUsers.get(roomKey), << >> standing for both undefined and empty
RoomUserMap(roomKey) ==
  IF roomKey \in DOMAIN roomUsers THEN roomUsers[roomKey] ELSE << >>

\* --- presence:join-room ---------------------------------------------------
JoinRoom(c, projectId) ==
  LET roomKey == getPresenceRoomKey(projectId)
      userPresence ==
        [id |-> SocketUser(c).sub,
         displayName |-> SocketUser(c).displayName,
         color |-> generateUserColor(SocketUser(c).sub),
         status |-> "online", lastSeen |-> now, cursor |-> NoCursor]
      roomUserMap == MapSet(RoomUserMap(roomKey), SocketUser(c).sub,
                            userPresence)
  IN
  /\ connected[c]
  /\ nStarted < MaxMessages
  /\ nStarted' = nStarted + 1
  /\ IF SocketUser(c).sub = "" \/ projectId = ""
     THEN /\ sent' = {PresenceError(c,
                        IF SocketUser(c).sub = ""
                        THEN "Authentication required"
                        ELSE "Invalid project id")}
          /\ Record(Op("join-room:invalid", c, projectId, "", 0, "", FALSE))
          /\ UNCHANGED << rooms, roomUsers >>
     ELSE /\ rooms' = RoomsJoin(c, roomKey)
          /\ roomUsers' = (roomKey :> roomUserMap) @@ roomUsers
          /\ sent' = {RoomUsersEvent(to, projectId, roomUserMap) :
                        to \in IoTo(rooms', roomKey)}
          /\ Record(Op("join-room", c, projectId, "", 0, "", TRUE))
  /\ UNCHANGED << user, handshake, projects, versions, connected, tasks, now,
                  maxBroadcast, scenario >>

\* (variant) the cursor of the entry is kept
MarkOfflineKeepCursor(entry) ==
  [entry EXCEPT !.status = "offline", !.lastSeen = now]

\* status offline, lastSeen stamped, cursor cleared
MarkOffline(entry) ==
  [entry EXCEPT !.status = "offline", !.lastSeen = now, !.cursor = NoCursor]

\* --- presence:leave-room --------------------------------------------------
LeaveRoom(c, projectId) ==
  LET roomKey == getPresenceRoomKey(projectId)
      uid == SocketUser(c).sub
      has == roomKey \in DOMAIN roomUsers /\ MapHas(roomUsers[roomKey], uid)
      roomUserMap ==
        IF has
        THEN MapSet(roomUsers[roomKey], uid,
                    MarkOffline(MapGet(roomUsers[roomKey], uid)))
        ELSE RoomUserMap(roomKey)
  IN
  /\ connected[c]
  /\ nStarted < MaxMessages
  /\ nStarted' = nStarted + 1
  /\ IF uid = "" \/ projectId = ""
     THEN /\ sent' = {PresenceError(c,
                        IF uid = "" THEN "Authentication required"
                        ELSE "Invalid project id")}
          /\ Record(Op("leave-room:invalid", c, projectId, "", 0, "", FALSE))
          /\ UNCHANGED << rooms, roomUsers >>
     ELSE /\ rooms' = RoomsLeave(c, roomKey)
          /\ roomUsers' = IF has THEN [roomUsers EXCEPT ![roomKey] =
                                         roomUserMap]
                          ELSE roomUsers
          /\ sent' = {RoomUsersEvent(to, projectId, roomUserMap) :
                        to \in IoTo(rooms', roomKey)}
          /\ Record(Op("leave-room", c, projectId, "", 0, "", TRUE))
  /\ UNCHANGED << user, handshake, projects, versions, connected, tasks, now,
                  maxBroadcast, scenario >>

\* --- presence:update-status -----------------------------------------------
UpdateStatus(c, projectId, status) ==
  LET roomKey == getPresenceRoomKey(projectId)
      uid == SocketUser(c).sub
      has == roomKey \in DOMAIN roomUsers /\ MapHas(roomUsers[roomKey], uid)
      roomUserMap ==
        MapSet(roomUsers[roomKey], uid,
               [MapGet(roomUsers[roomKey], uid)
                  EXCEPT !.status = status, !.lastSeen = now])
  IN
  /\ connected[c]
  /\ nStarted < MaxMessages
  /\ nStarted' = nStarted + 1
  /\ IF uid = "" \/ projectId = "" \/
        status \notin {"online", "away", "offline"}
     THEN /\ sent' = {PresenceError(c,
                        IF uid = "" THEN "Authentication required"
                        ELSE "Invalid data")}
          /\ Record(Op("update-status:invalid", c, projectId, "", 0, "",
                       FALSE))
          /\ UNCHANGED roomUsers
     ELSE IF has
     THEN /\ roomUsers' = [roomUsers EXCEPT ![roomKey] = roomUserMap]
          /\ sent' = {RoomUsersEvent(to, projectId, roomUserMap) :
                        to \in IoTo(rooms, roomKey)}
          /\ Record(Op("update-status", c, projectId, "", 0, status, TRUE))
     ELSE /\ UNCHANGED roomUsers
          /\ sent' = {}
          /\ Record(Op("update-status:absent", c, projectId, "", 0, status,
                       TRUE))
  /\ UNCHANGED << user, handshake, projects, versions, rooms, connected, tasks, now,
                  maxBroadcast, scenario >>

\* --- presence:typing ------------------------------------------------------
Typing(c, projectId, isTyping) ==
  LET roomKey == getPresenceRoomKey(projectId)
      uid == SocketUser(c).sub
  IN
  /\ connected[c]
  /\ nStarted < MaxMessages
  /\ nStarted' = nStarted + 1
  /\ IF uid = "" \/ projectId = ""
     THEN /\ sent' = {PresenceError(c,
                        IF uid = "" THEN "Authentication required"
                        ELSE "Invalid project id")}
          /\ Record(Op("typing:invalid", c, projectId, "", 0, "", FALSE))
     ELSE /\ sent' = {TypingEvent(to, c, projectId, isTyping) :
                        to \in SocketTo(rooms, c, roomKey)}
          /\ Record(Op("typing", c, projectId, "", 0, "", TRUE))
  /\ UNCHANGED << user, handshake, projects, versions, rooms, connected, tasks, roomUsers,
                  now, maxBroadcast, scenario >>

\* --- presence:cursor ------------------------------------------------------

\* The userId, displayName and color fields a client puts in a CursorPayload.
ClaimedInputs ==
  { [userId |-> "u1", displayName |-> "Ann", color |-> "#000000"],
    [userId |-> "u2", displayName |-> "Bob", color |-> "#ffffff"] }

\* (variant) the identity is read from the payload
CursorIdentityFromPayload(c, claimed) ==
  [sub |-> claimed.userId, displayName |-> claimed.displayName]

\* The handler destructures projectId, fileId and cursor only: the identity
\* it broadcasts is socket.user.
CursorIdentity(c, claimed) == SocketUser(c)

PresenceCursor(c, projectId, fileId, cursor, claimed) ==
  LET fileRoomKey == getFileRoomKey(projectId, fileId)
      presenceRoomKey == getPresenceRoomKey(projectId)
      uid == SocketUser(c).sub
      has == presenceRoomKey \in DOMAIN roomUsers /\
             MapHas(roomUsers[presenceRoomKey], uid)
  IN
  /\ connected[c]
  /\ nStarted < MaxMessages
  /\ nStarted' = nStarted + 1
  /\ IF uid = "" \/ projectId = "" \/ fileId = ""
     THEN /\ sent' = {PresenceError(c,
                        IF uid = "" THEN "Authentication required"
                        ELSE "Invalid project or file id")}
          /\ Record([Op("cursor:invalid", c, projectId, fileId, 0, "",
                         FALSE) EXCEPT !.arg = JsStr(claimed.userId)])
          /\ UNCHANGED roomUsers
     ELSE /\ roomUsers' =
               IF has
               THEN [roomUsers EXCEPT ![presenceRoomKey] =
                       MapSet(@, uid,
                              [MapGet(@, uid) EXCEPT !.cursor = cursor,
                                                     !.status = "online",
                                                     !.lastSeen = now])]
               ELSE roomUsers
          /\ sent' = {PresenceUpdate(to, CursorIdentity(c, claimed),
                                      projectId, fileId, cursor) :
                        to \in SocketTo(rooms, c, fileRoomKey)}
          /\ Record([Op("cursor", c, projectId, fileId, 0, "", TRUE)
                         EXCEPT !.arg = JsStr(claimed.userId)])
  /\ UNCHANGED << user, handshake, projects, versions, rooms, connected, tasks, now,
                  maxBroadcast, scenario >>

\* --- collab:cursor (collaborationHandlers.ts) ------------------------------
CollabCursor(c, projectId, fileId, cursor) ==
  LET roomKey == getRoomKey(projectId, fileId) IN
  /\ connected[c]
  /\ nStarted < MaxMessages
  /\ nStarted' = nStarted + 1
  /\ IF SocketUser(c).sub = "" \/ projectId = "" \/ fileId = ""
     THEN /\ sent' = {}
          /\ Record(Op("collab-cursor:invalid", c, projectId, fileId, 0, "",
                       FALSE))
     ELSE /\ sent' = {CursorUpdate(to, c, projectId, fileId, cursor) :
                        to \in IoTo(rooms, roomKey)}
          /\ Record(Op("collab-cursor", c, projectId, fileId, 0, "", TRUE))
  /\ UNCHANGED << user, handshake, projects, versions, rooms, connected,
                  tasks, roomUsers, now, maxBroadcast, scenario >>

\* --- disconnect -----------------------------------------------------------

\* socket.io removes a closing socket from every room before the
\* 'disconnect' listeners run.
RoomsLeaveAll(c) ==
  LET keep == {k \in DOMAIN rooms : rooms[k] \ {c} # {}}
  IN  [k \in keep |-> rooms[k] \ {c}]

\* (variant) the handlers of a closing connection are abandoned
TasksCancelledOnDisconnect(c) ==
  [i \in Slots |-> IF tasks[i].conn = c THEN NoTask ELSE tasks[i]]

\* No listener of 'disconnect' touches a handler that is suspended in the
\* engine: the promises of a closed connection's handlers resolve as usual.
TasksAfterDisconnect(c) == tasks

\* The presence disconnect listener: every roster holding the user is
\* marked offline and rebroadcast.
Disconnect(c) ==
  LET uid == SocketUser(c).sub
      affected == {k \in DOMAIN roomUsers : MapHas(roomUsers[k], uid)}
  IN
  /\ connected[c]
  /\ connected' = [connected EXCEPT ![c] = FALSE]
  /\ rooms' = RoomsLeaveAll(c)
  /\ roomUsers' = [k \in DOMAIN roomUsers |->
                     IF k \in affected
                     THEN MapSet(roomUsers[k], uid,
                                 MarkOffline(MapGet(roomUsers[k], uid)))
                     ELSE roomUsers[k]]
  /\ sent' = UNION {{RoomUsersEvent(to, k[2], roomUsers'[k]) :
                       to \in IoTo(rooms', k)} : k \in affected}
  /\ tasks' = TasksAfterDisconnect(c)
  /\ Record(Op("disconnect", c, "", "", 0, "", TRUE))
  /\ UNCHANGED << user, handshake, projects, versions, now,
                  maxBroadcast, nStarted, scenario >>

\* new Date() advances
Tick ==
  /\ now < MaxTime
  /\ now' = now + 1
  /\ sent' = {}
  /\ Record(Op("tick", "", "", "", 0, "", TRUE))
  /\ UNCHANGED << user, handshake, projects, versions, rooms, connected, tasks, roomUsers,
                  maxBroadcast, nStarted, scenario >>

\* --- presence cleanup worker (setInterval in initSocketServer) ------------

\* Every roster room of the adapter is sent presence:cleanup-offline with the
\* cutoff; the presence store is not touched.
CleanupSweep ==
  LET rosterRooms == {k \in DOMAIN rooms : k[1] = "room"} IN
  /\ sent' = UNION {{CleanupOffline(to, now - PRESENCE_CLEANUP_INTERVAL) :
                       to \in IoTo(rooms, k)} : k \in rosterRooms}
  /\ Record(Op("cleanup-sweep", "", "", "", 0, "", TRUE))
  /\ UNCHANGED << user, handshake, projects, versions, rooms, connected,
                  tasks, roomUsers, now, maxBroadcast, nStarted, scenario >>

\* --- connection handshake (io.use(socketAuthMiddleware), io.on('connection'))

\* A new connection presents its token.  The middleware runs; on next(err)
\* the connection is refused and no 'connection' event fires, so no handler
\* is registered; on next() the handlers are registered.
Connect(c, token) ==
  LET res == socketAuthMiddleware(token) IN
  /\ handshake[c].runs = 0
  /\ handshake' = [handshake EXCEPT ![c] =
                     [token |-> token, runs |-> @.runs + 1]]
  /\ user' = [user EXCEPT ![c] = res.user]
  /\ connected' = [connected EXCEPT ![c] = (res.err = "")]
  /\ sent' = IF res.err = "" THEN {} ELSE {ConnectError(c, res.err)}
  /\ Record([Op("connect", c, "", "", 0, "", res.err = "")
                 EXCEPT !.arg = JsStr(token)])
  /\ UNCHANGED << projects, versions, rooms, tasks, roomUsers, now,
                  maxBroadcast, nStarted, scenario >>

\* Server started, no connection made yet.
InitAuth ==
  /\ user = [c \in Conns |-> NoUser]
  /\ handshake = [c \in Conns |-> [token |-> "", runs |-> 0]]
  /\ projects = ("p1" :> [f \in {"f1", "f2"} |-> ""])
  /\ versions = << >>
  /\ rooms = << >>
  /\ connected = [c \in Conns |-> FALSE]
  /\ tasks = [i \in Slots |-> NoTask]
  /\ roomUsers = << >>
  /\ now = 0
  /\ sent = {}
  /\ lastOp = NoOp
  /\ maxBroadcast = [k \in {key("p1", "f1"), key("p1", "f2")} |-> 0]
  /\ nStarted = 0
  /\ scenario = [k \in {key("p1", "f1"), key("p1", "f2")} |-> "none"]
  /\ InitRest

\* ========================================================================
\* Specifications
\* ========================================================================

\* The messages the clients send.  c1 works on both files of p1 and also
\* names a project and a file that do not exist; c2 works on p1/f1.  Each
\* client sends its own text.
RefsOf(c) ==
  IF c = "c1"
  THEN {<<"p1", "f1">>, <<"p1", "f2">>, <<"p2", "f1">>, <<"p1", "f3">>}
  ELSE {<<"p1", "f1">>}

PayloadOf(c) == IF c = "c1" THEN JsStr("a") ELSE JsObj("ab")

\* Document collaboration with well-formed messages: file rooms, the engine
\* and the durable store.
Next ==
  \/ \E c \in CollabConns : \E ref \in RefsOf(c) :
       JoinFile(c, ref[1], ref[2])
  \/ \E c \in CollabConns : \E ref \in RefsOf(c) :
       LeaveFile(c, ref[1], ref[2])
  \/ \E c \in CollabConns : \E ref \in RefsOf(c), n \in 1 .. MaxVersion :
       Edit(c, ref[1], ref[2], JsNum(n), PayloadOf(c))
  \/ \E i \in Slots : JoinHydrated(i)
  \/ \E i \in Slots : JoinSnapshotRead(i)
  \/ \E i \in Slots : JoinDeliver(i)
  \/ \E i \in Slots : EditLoaded(i)
  \/ \E i \in Slots : EditSave(i)
  \/ \E i \in Slots : EditSaveFailed(i)
  \/ \E i \in Slots : EditCommit(i)
  \/ \E c \in CollabConns : Disconnect(c)

Spec == Init /\ [][Next]_vars

\* Message validation: c1 sends well-formed and malformed collab messages
\* about p1/f1 while c2 joins, leaves and edits that file.
NextValidation ==
  \/ \E ref \in RefInputs : JoinFile("c1", ref[1], ref[2])
  \/ \E ref \in RefInputs : LeaveFile("c1", ref[1], ref[2])
  \/ \E ref \in {<<"", "f1">>, <<"zz", "f1">>, <<"p1", "f1">>},
        version \in VersionInputs :
       Edit("c1", ref[1], ref[2], version, PayloadOf("c1"))
  \/ JoinFile("c2", "p1", "f1")
  \/ LeaveFile("c2", "p1", "f1")
  \/ \E n \in 1 .. MaxVersion : Edit("c2", "p1", "f1", JsNum(n), PayloadOf("c2"))
  \/ \E i \in Slots : JoinHydrated(i)
  \/ \E i \in Slots : JoinSnapshotRead(i)
  \/ \E i \in Slots : JoinDeliver(i)
  \/ \E i \in Slots : EditLoaded(i)
  \/ \E i \in Slots : EditSave(i)
  \/ \E i \in Slots : EditSaveFailed(i)
  \/ \E i \in Slots : EditCommit(i)

SpecValidation == Init /\ [][NextValidation]_vars

\* The engine with its cache being dropped: c1 joins and edits the two files
\* of p1 while entries of the cache, present or not, are disposed.
NextEngine ==
  \/ \E fileId \in {"f1", "f2"} : JoinFile("c1", "p1", fileId)
  \/ \E fileId \in {"f1", "f2"}, n \in 1 .. MaxVersion :
       Edit("c1", "p1", fileId, JsNum(n), PayloadOf("c1"))
  \/ \E fileId \in {"f1", "f2", "f3"} : Dispose("p1", fileId)
  \/ \E i \in Slots : JoinHydrated(i)
  \/ \E i \in Slots : JoinSnapshotRead(i)
  \/ \E i \in Slots : JoinDeliver(i)
  \/ \E i \in Slots : EditLoaded(i)
  \/ \E i \in Slots : EditSave(i)
  \/ \E i \in Slots : EditSaveFailed(i)
  \/ \E i \in Slots : EditCommit(i)

SpecEngine == Init /\ [][NextEngine]_vars

\* Presence: roster rooms and the presence store.  c1 and c3 are two
\* connections of user u1, c2 is user u2; c1 also uses a second project.
PresenceRoomsOf(c) == IF c = "c1" THEN {"", "p1", "p2"} ELSE {"p1"}
StatusesOf(c) == IF c = "c1" THEN StatusInputs ELSE {"away"}

NextPresence ==
  \/ \E c \in Conns : \E projectId \in PresenceRoomsOf(c) :
       JoinRoom(c, projectId)
  \/ \E c \in Conns : \E projectId \in PresenceRoomsOf(c) \ {""} :
       LeaveRoom(c, projectId)
  \/ \E c \in Conns : \E status \in StatusesOf(c) :
       UpdateStatus(c, "p1", status)
  \/ \E isTyping \in BOOLEAN : Typing("c2", "p1", isTyping)
  \/ \E c \in {"c1", "c3"}, cursor \in CursorInputs :
       PresenceCursor(c, "p1", "f1", cursor,
                      [userId |-> "u1", displayName |-> "Ann",
                       color |-> "#000000"])
  \/ \E c \in Conns : Disconnect(c)
  \/ Tick
  \/ CleanupSweep

SpecPresence == Init /\ [][NextPresence]_vars

\* Cursors and typing across rooms: c1 and c2 join the file rooms of f1 and
\* f2 of project p1, c3 the file room of f2; c2 and c3 join the roster room
\* of p1; c1 and c2 send cursors on both channels, with payloads that claim
\* their own or the other user's identity, and typing indicators; c2 also
\* edits f1.
FilesOf(c) == IF c = "c3" THEN {"f2"} ELSE {"f1", "f2"}

NextCursor ==
  \/ \E c \in Conns : \E fileId \in FilesOf(c) :
       JoinFile(c, "p1", fileId)
  \/ \E i \in Slots : JoinHydrated(i)
  \/ \E i \in Slots : JoinSnapshotRead(i)
  \/ \E i \in Slots : JoinDeliver(i)
  \/ \E c \in {"c2", "c3"} : JoinRoom(c, "p1")
  \/ \E c \in CollabConns : \E fileId \in {"f1", "f2"} :
       \E claimed \in ClaimedInputs :
         PresenceCursor(c, "p1", fileId, <<1, 1>>, claimed)
  \/ \E c \in CollabConns : \E fileId \in {"", "f1", "f2"} :
       CollabCursor(c, "p1", fileId, <<1, 1>>)
  \/ \E c \in CollabConns : Typing(c, "p1", TRUE)
  \/ Edit("c2", "p1", "f1", JsNum(1), PayloadOf("c2"))
  \/ \E i \in Slots : EditLoaded(i)
  \/ \E i \in Slots : EditSave(i)
  \/ \E i \in Slots : EditSaveFailed(i)
  \/ \E i \in Slots : EditCommit(i)

SpecCursor == Init /\ [][NextCursor]_vars

\* Handshake: connections present good and bad tokens, and the accepted
\* ones use the presence handlers.
TokensOf(c) ==
  IF c = "c1" THEN TokenInputs
  ELSE IF c = "c2" THEN {"tok-u2", "tok-anon", "nosub"}
  ELSE {"tok-u1"}

NextAuth ==
  \/ \E c \in Conns : \E token \in TokensOf(c) : Connect(c, token)
  \/ \E c \in Conns : JoinRoom(c, "p1")
  \/ \E c \in Conns : Typing(c, "p1", TRUE)
  \/ \E c \in Conns :
       PresenceCursor(c, "p1", "f1", <<1, 1>>,
                      [userId |-> "u2", displayName |-> "Bob",
                       color |-> "#ffffff"])
  \/ \E c \in Conns : Disconnect(c)

SpecAuth == InitAuth /\ [][NextAuth]_vars

\* ========================================================================
\* Display colors: the four copies of the color function
\* ========================================================================

\* User ids as strings of character codes: '0', '1', 'a', 'f', 'u'.
IdChars == {48, 49, 97, 102, 117}

UserIdInputs ==
  UNION {[1 .. n -> IdChars] : n \in 1 .. MaxIdLen}

\* let hash = 0; for (...) hash = userId.charCodeAt(i) + ((hash << 5) - hash)
Hash(codes) == HashLoop(codes, 1, 0)

\* generateUserColor of the presence handlers (sockets/index.ts)
presenceColor(codes) == colors[(Abs(Hash(codes)) % Len(colors)) + 1]

\* generateUserColor of the collaboration handlers
collabColor(codes) == colors[(Abs(Hash(codes)) % Len(colors)) + 1]

\* generateUserColor of the PresenceBar component
presenceBarColor(codes) == colors[(Abs(Hash(codes)) % Len(colors)) + 1]

\* getUserColor of the useCollab hook: `hsl(${hue}, 70%, 50%)`
getUserColor(codes) ==
  "hsl(" \o ToString(Abs(Hash(codes)) % 360) \o ", 70%, 50%)"

ColorBy(party, codes) ==
  CASE party = "presence" -> presenceColor(codes)
    [] party = "collab" -> collabColor(codes)
    [] party = "PresenceBar" -> presenceBarColor(codes)
    [] party = "useCollab" -> getUserColor(codes)

\* One party computes the color of the user.
ComputeColor(party) ==
  /\ color[party] = ""
  /\ color' = [color EXCEPT ![party] = ColorBy(party, userId)]
  /\ lastOp' = Op("color:" \o party, "", "", "", 0, "", TRUE)
  /\ sent' = {}
  /\ UNCHANGED << user, handshake, projects, versions, rooms, connected,
                  tasks, roomUsers, now, maxBroadcast, nStarted, scenario,
                  server, inbox, editor, userId >>

\* Any user id of the input set is shown by the four parties.
InitColor ==
  /\ user = [c \in Conns |-> socketAuthMiddleware(TokenOf(c)).user]
  /\ handshake = [c \in Conns |-> [token |-> TokenOf(c), runs |-> 1]]
  /\ projects = ("p1" :> [f \in {"f1", "f2"} |-> ""])
  /\ versions = << >>
  /\ rooms = << >>
  /\ connected = [c \in Conns |-> TRUE]
  /\ tasks = [i \in Slots |-> NoTask]
  /\ roomUsers = << >>
  /\ now = 0
  /\ sent = {}
  /\ lastOp = NoOp
  /\ maxBroadcast = [k \in {key("p1", "f1"), key("p1", "f2")} |-> 0]
  /\ nStarted = 0
  /\ scenario = [k \in {key("p1", "f1"), key("p1", "f2")} |-> "none"]
  /\ server = Listening
  /\ inbox = [c \in Conns |-> << >>]
  /\ editor = [c \in Conns |-> NoEditor]
  /\ userId \in UserIdInputs
  /\ color = [party \in Parties |-> ""]

NextColor ==
  \/ ComputeColor("presence")
  \/ ComputeColor("collab")
  \/ ComputeColor("PresenceBar")
  \/ ComputeColor("useCollab")

SpecColor == InitColor /\ [][NextColor]_vars

\* ========================================================================
\* Process shutdown (server.ts)
\* ========================================================================

\* process.on('SIGINT' | 'SIGTERM') -> shutdown(signal): server.close(cb).
\* The first call stops the HTTP server from accepting connections; the
\* callback waits until every open connection has ended.  A repeated call
\* finds the server closed already and only queues another callback.
\* Nothing is emitted to the sockets: shutdownSocketServer is called from
\* nowhere.
Signal(signal) ==
  /\ server.phase \in {"listening", "closing"}
  /\ server' = IF server.phase = "listening"
               THEN [phase |-> "closing",
                     openAtSignal |-> {c \in Conns : connected[c]},
                     noticed |-> {}]
               ELSE server
  /\ sent' = {}
  /\ lastOp' = [Op("signal", "", "", "", 0, "", TRUE)
                  EXCEPT !.arg = JsStr(signal)]
  /\ UNCHANGED << user, handshake, projects, versions, rooms, connected,
                  tasks, roomUsers, now, maxBroadcast, nStarted, scenario,
                  inbox, editor, userId, color >>

\* The callback of server.close: the last open connection has ended;
\* disconnectDB() and process.exit(0).
ServerClosed ==
  /\ server.phase = "closing"
  /\ \A c \in Conns : ~connected[c]
  /\ server' = [server EXCEPT !.phase = "exited"]
  /\ sent' = {}
  /\ lastOp' = Op("exit", "", "", "", 0, "", TRUE)
  /\ UNCHANGED << user, handshake, projects, versions, rooms, connected,
                  tasks, roomUsers, now, maxBroadcast, nStarted, scenario,
                  inbox, editor, userId, color >>

\* Clients connect while the server listens, use project presence and end
\* their connections; the process receives signals.
NextShutdown ==
  \/ /\ server.phase = "listening"
     /\ \E c \in Conns : Connect(c, TokenOf(c))
  \/ /\ server.phase # "exited"
     /\ \E c \in Conns : JoinRoom(c, "p1")
  \/ /\ server.phase # "exited"
     /\ \E c \in Conns : \E status \in {"online", "away"} :
          UpdateStatus(c, "p1", status)
  \/ /\ server.phase # "exited"
     /\ \E c \in Conns : Disconnect(c)
  \/ \E signal \in {"SIGINT", "SIGTERM"} : Signal(signal)
  \/ ServerClosed

SpecShutdown == InitAuth /\ [][NextShutdown]_vars

\* ========================================================================
\* HTTP file endpoint (project.controller.ts)
\* ========================================================================

\* The stored project p1: owned by u1, no collaborators.
ProjectOwner == ("p1" :> "u1")
ProjectCollaborators == ("p1" :> {})

hasProjectAccess(projectId, uid) ==
  LET isOwner == ProjectOwner[projectId] # "" /\ ProjectOwner[projectId] = uid
      isCollaborator == uid \in ProjectCollaborators[projectId]
  IN  isOwner \/ isCollaborator

\* The status updateFileInProject answers with before it writes: 401, 400,
\* 404 and 403 for the failed checks, 200 when the write may go ahead.
UpdateStatusCode(uid, projectId, fileId) ==
  IF uid = "" THEN 401
  ELSE IF ~isValidObjectId(projectId) \/ ~isValidObjectId(fileId) THEN 400
  ELSE IF ~ProjectExists(projectId) THEN 404
  ELSE IF ~hasProjectAccess(projectId, uid) THEN 403
  ELSE IF ~FileExists(projectId, fileId) THEN 404
  ELSE 200

\* PUT /:projectId/files/:fileId up to `await project.save()`: the checks,
\* then file.content = content ?? ''.
UpdateFileInProject(uid, projectId, fileId, content) ==
  LET status == UpdateStatusCode(uid, projectId, fileId) IN
  /\ IF status # 200
     THEN UNCHANGED << tasks, nStarted >>
     ELSE /\ HasFreeSlot
          /\ nStarted < MaxOps
          /\ nStarted' = nStarted + 1
          /\ tasks' = [tasks EXCEPT ![FirstFree] =
               [kind |-> "put", pc |-> "save", conn |-> "",
                projectId |-> projectId, fileId |-> fileId,
                currentVersion |-> 0, version |-> 0, content |-> content]]
  /\ sent' = {}
  /\ Record([Op("put:start", "", projectId, fileId, 0, content,
                status = 200) EXCEPT !.arg = JsNum(status)])
  /\ UNCHANGED << user, handshake, projects, versions, rooms, connected,
                  roomUsers, now, maxBroadcast, scenario >>

\* project.save() of updateFileInProject is applied; the handler answers 200.
\* The engine is not involved: no version is stored and nothing is emitted.
UpdateFileSaved(i) ==
  LET t == tasks[i] IN
  /\ t.kind = "put" /\ t.pc = "save"
  /\ projects' = Save(t.projectId, t.fileId, t.content)
  /\ tasks' = [tasks EXCEPT ![i] = NoTask]
  /\ sent' = {}
  /\ Record([Op("put:saved", "", t.projectId, t.fileId, 0, t.content, TRUE)
               EXCEPT !.arg = JsNum(200)])
  /\ UNCHANGED << user, handshake, versions, rooms, connected, roomUsers,
                  now, maxBroadcast, nStarted, scenario >>

\* One collaborating connection on p1/f1 next to HTTP clients that update
\* files as u1, as u2 and without a session.
NextHttp ==
  \/ JoinFile("c1", "p1", "f1")
  \/ \E n \in 1 .. MaxVersion :
       Edit("c1", "p1", "f1", JsNum(n), PayloadOf("c1"))
  \/ \E uid \in {"", "u1", "u2"}, projectId \in {"p1", "p2", "zz"},
        fileId \in {"f1", "f3"} :
       UpdateFileInProject(uid, projectId, fileId, "x")
  \/ \E i \in Slots : UpdateFileSaved(i)
  \/ \E i \in Slots : JoinHydrated(i)
  \/ \E i \in Slots : JoinSnapshotRead(i)
  \/ \E i \in Slots : JoinDeliver(i)
  \/ \E i \in Slots : EditLoaded(i)
  \/ \E i \in Slots : EditSave(i)
  \/ \E i \in Slots : EditSaveFailed(i)
  \/ \E i \in Slots : EditCommit(i)

SpecHttp == Init /\ [][NextHttp]_vars

\* ========================================================================
\* Generic room management (sockets/index.ts, "optional fallback")
\* ========================================================================

\* Room ids a client may send: the key of a file room, the key of a roster
\* room, and an id that is neither.
RoomIdInputs == {getRoomKey("p1", "f1"), getPresenceRoomKey("p1"), << "lobby" >>}

\* socket.on('join-room', (roomId) => socket.join(roomId))
GenericJoinRoom(c, roomId) ==
  /\ connected[c]
  /\ rooms' = RoomsJoin(c, roomId)
  /\ sent' = {}
  /\ Record([Op("generic:join-room", c, "", "", 0, "", TRUE)
               EXCEPT !.arg = JsStr(roomId[1])])
  /\ UNCHANGED << user, handshake, projects, versions, connected, tasks,
                  roomUsers, now, maxBroadcast, nStarted, scenario >>

\* socket.on('leave-room', (roomId) => socket.leave(roomId))
GenericLeaveRoom(c, roomId) ==
  /\ connected[c]
  /\ rooms' = RoomsLeave(c, roomId)
  /\ sent' = {}
  /\ Record([Op("generic:leave-room", c, "", "", 0, "", TRUE)
               EXCEPT !.arg = JsStr(roomId[1])])
  /\ UNCHANGED << user, handshake, projects, versions, connected, tasks,
                  roomUsers, now, maxBroadcast, nStarted, scenario >>

\* Every message that touches room membership: the file joins and leaves
\* of c1 on p1/f1, the roster joins and leaves of c2 on p1, and the generic
\* join-room / leave-room messages of both.
NextRooms ==
  \/ JoinFile("c1", "p1", "f1")
  \/ LeaveFile("c1", "p1", "f1")
  \/ JoinRoom("c2", "p1")
  \/ LeaveRoom("c2", "p1")
  \/ \E c \in CollabConns, roomId \in RoomIdInputs : GenericJoinRoom(c, roomId)
  \/ \E c \in CollabConns, roomId \in RoomIdInputs : GenericLeaveRoom(c, roomId)
  \/ \E i \in Slots : JoinHydrated(i)
  \/ \E i \in Slots : JoinSnapshotRead(i)
  \/ \E i \in Slots : JoinDeliver(i)

SpecRooms == Init /\ [][NextRooms]_vars

\* ========================================================================
\* Frontend: the useCollab hook and its editor (useFileTree.ts)
\* ========================================================================

\* Does replacing the whole model text `old` by `new` with
\* model.pushEditOperations raise onDidChangeModelContent?  The editor skips
\* only the edit that replaces an empty range by an empty text; it does not
\* compare the new text with the old one.
ContentChanged(old, new) == ~(old = "" /\ new = "")

\* applyRemoteContent(content) followed by the content listener it
\* triggers: the model text is replaced and, when the change event fires
\* and a file is active, the 200 ms timer that sends the edit is (re)started.
applyRemoteContent(ed, content) ==
  [ed EXCEPT !.value = content,
             !.timer = @ \/ (ContentChanged(ed.value, content) /\
                             ed.fileId # "")]

\* setActiveFile(fileId): remember the file, reset the version, emit
\* collab:join-file (the server's handler starts).
ClientSetActiveFile(c, fileId) ==
  /\ editor[c].mounted
  /\ fileId # ""
  /\ editor[c].fileId # fileId
  /\ editor' = [editor EXCEPT ![c].fileId = fileId, ![c].version = 0]
  /\ JoinFileMessage(c, "p1", fileId)

\* The user changes the text in the editor: onDidChangeModelContent starts
\* the timer when a file is active.
ClientType(c, text) ==
  /\ editor[c].mounted
  /\ connected[c]
  /\ editor[c].typed < MaxTyped
  /\ text # editor[c].value
  /\ editor' = [editor EXCEPT ![c].value = text,
                              ![c].typed = @ + 1,
                              ![c].timer = @ \/ editor[c].fileId # ""]
  /\ sent' = {}
  /\ lastOp' = Op("client:type", c, "p1", editor[c].fileId, 0, text, TRUE)
  /\ UNCHANGED << user, handshake, projects, versions, rooms, connected,
                  tasks, roomUsers, now, maxBroadcast, nStarted, scenario,
                  server, inbox, userId, color >>

\* The timer fires: sendEdit({type: 'replace', content: editor.getValue()})
\* emits collab:edit with version versionRef + 1 (the server's handler
\* starts).
ClientTimer(c) ==
  /\ editor[c].mounted
  /\ editor[c].timer
  /\ editor[c].fileId # ""
  /\ editor' = [editor EXCEPT ![c].timer = FALSE, ![c].edits = @ + 1]
  /\ EditMessage(c, "p1", editor[c].fileId, JsNum(editor[c].version + 1),
                 JsObj(editor[c].value))

\* The next event reaches the hook: handleJoined, handleRemoteEdit or
\* handleCollabAck.  Events for another project or file are dropped.
ClientReceive(c) ==
  /\ editor[c].mounted
  /\ inbox[c] # << >>
  /\ LET e == Head(inbox[c])
         ed == editor[c]
         mine == e.projectId = "p1" /\ e.fileId = ed.fileId
     IN
     /\ editor' = [editor EXCEPT ![c] =
          IF ~mine THEN ed
          ELSE IF e.ev = "collab:joined"
            THEN [applyRemoteContent(ed, e.content) EXCEPT !.version = 0]
          ELSE IF e.ev = "collab:remote-edit"
            THEN [applyRemoteContent(ed, e.content)
                    EXCEPT !.version = e.version]
          ELSE [ed EXCEPT !.version = e.version]]
     /\ lastOp' = Op("client:" \o e.ev, c, e.projectId, e.fileId,
                     e.version, e.content, mine)
  /\ inbox' = [inbox EXCEPT ![c] = Tail(@)]
  /\ sent' = {}
  /\ UNCHANGED << user, handshake, projects, versions, rooms, connected,
                  tasks, roomUsers, now, maxBroadcast, nStarted, scenario,
                  server, userId, color >>

\* c1 and c2 run the frontend on project p1; c3 is a bare socket.
InitClient ==
  /\ user = [c \in Conns |-> socketAuthMiddleware(TokenOf(c)).user]
  /\ handshake = [c \in Conns |-> [token |-> TokenOf(c), runs |-> 1]]
  /\ projects = ("p1" :> [f \in {"f1", "f2"} |-> ""])
  /\ versions = << >>
  /\ rooms = << >>
  /\ connected = [c \in Conns |-> TRUE]
  /\ tasks = [i \in Slots |-> NoTask]
  /\ roomUsers = << >>
  /\ now = 0
  /\ sent = {}
  /\ lastOp = NoOp
  /\ maxBroadcast = [k \in {key("p1", "f1"), key("p1", "f2")} |-> 0]
  /\ nStarted = 0
  /\ scenario = [k \in {key("p1", "f1"), key("p1", "f2")} |-> "none"]
  /\ server = Listening
  /\ inbox = [c \in Conns |-> << >>]
  /\ editor = [c \in Conns |->
                 IF c \in CollabConns THEN MountedEditor ELSE NoEditor]
  /\ userId = << >>
  /\ color = [party \in Parties |-> ""]

\* Two users open file f1 of p1 in their editors; the user at c1 makes
\* local changes (at most MaxTyped), the user at c2 makes none.
NextClient ==
  \/ \E c \in CollabConns : ClientSetActiveFile(c, "f1")
  \/ ClientType("c1", "a")
  \/ \E c \in CollabConns : ClientTimer(c)
  \/ \E c \in CollabConns : ClientReceive(c)
  \/ \E i \in Slots : JoinHydrated(i)
  \/ \E i \in Slots : JoinSnapshotRead(i)
  \/ \E i \in Slots : JoinDeliver(i)
  \/ \E i \in Slots : EditLoaded(i)
  \/ \E i \in Slots : EditSave(i)
  \/ \E i \in Slots : EditSaveFailed(i)
  \/ \E i \in Slots : EditCommit(i)

SpecClient == InitClient /\ [][NextClient]_vars

\* ========================================================================
\* Properties
\* ========================================================================

ExistingKeys == {key("p1", "f1"), key("p1", "f2")}

OpKey(op) == key(op.projectId, op.fileId)
OpRoom(op) == getRoomKey(op.projectId, op.fileId)

\* the events of one kind among those the last step emitted
SentOf(ev) == {e \in sent : e.ev = ev}

\* C1: the engine's in-memory version of a ref never decreases when an
\* applyOperation call on that ref stores its new version, overlapping calls
\* included.
C1_VersionNeverDecreases ==
  [][lastOp'.op = "edit:commit" =>
       \A k \in DOMAIN versions :
         k \in DOMAIN versions' /\ versions'[k] >= versions[k]]_vars

\* C2: every committed edit is broadcast with a version strictly greater
\* than the version of every edit broadcast before it on the same ref.
C2_BroadcastVersionsIncrease ==
  [][lastOp'.op = "edit:commit" =>
       lastOp'.version > maxBroadcast[OpKey(lastOp')]]_vars

\* C3: after applyOperation succeeds for a collab:edit, every member of the
\* file room (the sender included when it is a member) is sent one
\* remote-edit with the committed version, the committed content and the
\* author's id, nobody else is sent one, and exactly one ack, with the same
\* version, is sent, to the sender.
C3_EditBroadcast ==
  lastOp.op = "edit:commit" =>
    /\ versions[OpKey(lastOp)] = lastOp.version
    /\ \A m \in Members(OpRoom(lastOp)) :
         Cardinality({e \in SentOf("collab:remote-edit") : e.to = m}) = 1
    /\ \A e \in SentOf("collab:remote-edit") :
         /\ e.to \in Members(OpRoom(lastOp))
         /\ e.projectId = lastOp.projectId /\ e.fileId = lastOp.fileId
         /\ e.version = lastOp.version
         /\ e.content = lastOp.content
         /\ e.userId = SocketUser(lastOp.conn).sub
         /\ {"version", "content", "userId"} \subseteq e.fields
    /\ \E a \in sent :
         /\ SentOf("collab:ack") = {a}
         /\ a.to = lastOp.conn
         /\ a.version = lastOp.version
         /\ "version" \in a.fields
    /\ SentOf("collab:error") = {}

\* C3 witness: an edit committed while its sender and another connection
\* were members of the file room.
C3_Witness ==
  /\ lastOp.op = "edit:commit"
  /\ lastOp.conn \in Members(OpRoom(lastOp))
  /\ Cardinality(Members(OpRoom(lastOp))) >= 2

\* C4: when applyOperation fails during a collab:edit (project absent, file
\* absent, or the durable write fails) the step changes no in-memory version
\* and no durable content, emits no remote-edit and no ack, and emits one
\* error event, to the sender.
C4_FailedEditChangesNothing ==
  [][(lastOp'.op \in {"edit:loaded", "edit:save-failed"} /\ ~lastOp'.ok) =>
       /\ versions' = versions
       /\ projects' = projects
       /\ rooms' = rooms
       /\ \A e \in sent' : e.ev = "collab:error" /\ e.to = lastOp'.conn
       /\ Cardinality(sent') = 1]_vars

\* C4 witness: the durable write of an edit failed on a ref that had a
\* committed version and a member in its file room.
C4_Witness ==
  /\ lastOp.op = "edit:save-failed"
  /\ Members(OpRoom(lastOp)) # {}
  /\ CurrentVersion(OpKey(lastOp)) >= 1

\* C5: the joined message of collab:join-file carries the content together
\* with a version, equal to the engine's version of the ref at the instant
\* the content was read.
C5_JoinedCarriesVersion ==
  lastOp.op = "join-file:joined" =>
    \E e \in SentOf("collab:joined") :
      /\ e.to = lastOp.conn
      /\ "content" \in e.fields /\ e.content = lastOp.content
      /\ "version" \in e.fields /\ e.version = lastOp.version

\* C6: on a freshly hydrated ref the first joiner receives content "" and
\* version 0; an edit with version 1 and payload p makes the room receive
\* remote-edit {1, p} and the sender ack {1}; a connection joining
\* afterwards receives content p and version 1.
C6_JoinEditJoinScenario ==
  /\ (lastOp.op = "join-file:joined" /\ lastOp.version = 0 /\
      lastOp.content = "") =>
       \E e \in SentOf("collab:joined") :
         /\ e.to = lastOp.conn /\ e.content = ""
         /\ "version" \in e.fields /\ e.version = 0
  /\ (lastOp.op = "edit:commit" /\ lastOp.arg = JsNum(1) /\
      lastOp.version = 1) =>
       /\ \A m \in Members(OpRoom(lastOp)) :
            \E e \in SentOf("collab:remote-edit") :
              e.to = m /\ e.version = 1 /\ e.content = lastOp.content
       /\ \E a \in SentOf("collab:ack") : a.to = lastOp.conn /\ a.version = 1
  /\ (lastOp.op = "join-file:joined" /\ lastOp.version = 1 /\
      maxBroadcast[OpKey(lastOp)] = 1) =>
       \E e \in SentOf("collab:joined") :
         /\ e.to = lastOp.conn /\ e.content = lastOp.content
         /\ "version" \in e.fields /\ e.version = 1

\* C7: (a) a step of a handler working on one ref changes neither the
\* version nor the durable content of any other ref; (b) when the only
\* handlers that ever touched a ref are an edit {version 1, "a"} and, started
\* after its commit, an edit {version 2, "ab"}, then once the second has
\* committed the ref's content is "ab" and its version is 2, whatever ran on
\* other refs in between.
C7_OtherRefsUntouched ==
  [][/\ \A k \in ExistingKeys :
          OpKey(lastOp') # k =>
            /\ (k \in DOMAIN versions') = (k \in DOMAIN versions)
            /\ k \in DOMAIN versions => versions'[k] = versions[k]
            /\ projects'[k[1]][k[2]] = projects[k[1]][k[2]]
     /\ \A k \in ExistingKeys :
          scenario'[k] = "two" =>
            /\ k \in DOMAIN versions' /\ versions'[k] = 2
            /\ projects'[k[1]][k[2]] = "ab"]_vars

\* C7 witness: the two edits committed on p1/f1 while the other file of the
\* same project was edited as well.
C7_Witness ==
  /\ scenario[key("p1", "f1")] = "two"
  /\ projects["p1"]["f2"] = "a"
  /\ projects["p1"]["f1"] = "ab"

\* C8: a collab:edit whose version is not a number or is negative is
\* answered with one error event to the sender; no version, no content and
\* no room changes, no handler is left in flight and nothing is emitted to
\* the file room.
C8_InvalidVersionRejected ==
  [][(lastOp'.op \in {"edit:invalid", "edit:start"} /\
      (TypeOf(lastOp'.arg) # "number" \/ NumberOf(lastOp'.arg) < 0)) =>
       /\ lastOp'.op = "edit:invalid"
       /\ versions' = versions /\ projects' = projects /\ rooms' = rooms
       /\ tasks' = tasks
       /\ \A e \in sent' : e.ev = "collab:error" /\ e.to = lastOp'.conn
       /\ Cardinality(sent') = 1]_vars

\* C8 witness: an edit with version "two" and valid ids was rejected on a
\* ref that had a committed version and another member in its file room.
C8_Witness ==
  /\ lastOp.op = "edit:invalid"
  /\ lastOp.arg = JsStr("two")
  /\ lastOp.projectId = "p1" /\ lastOp.fileId = "f1"
  /\ Members(OpRoom(lastOp)) \ {lastOp.conn} # {}
  /\ CurrentVersion(OpKey(lastOp)) >= 1

\* C9: on collab:join-file the content is sent to the joining connection
\* only; every other member of the file room is sent one user-joined with
\* the joiner's id, display name and color and without content; the joiner
\* is sent no user-joined.
C9_SnapshotOnlyToJoiner ==
  lastOp.op = "join-file:joined" =>
    /\ \A e \in sent : "content" \in e.fields => e.to = lastOp.conn
    /\ Cardinality(SentOf("collab:joined")) = 1
    /\ \A m \in Members(OpRoom(lastOp)) \ {lastOp.conn} :
         Cardinality({e \in SentOf("collab:user-joined") : e.to = m}) = 1
    /\ \A e \in SentOf("collab:user-joined") :
         /\ e.to \in Members(OpRoom(lastOp)) \ {lastOp.conn}
         /\ e.userId = SocketUser(lastOp.conn).sub
         /\ e.displayName = SocketUser(lastOp.conn).displayName
         /\ e.color = generateUserColor(SocketUser(lastOp.conn).sub)
         /\ {"userId", "displayName", "color"} \subseteq e.fields
         /\ "content" \notin e.fields

\* C9 witness: a connection joined a file room that had another member and
\* a non-empty document.
C9_Witness ==
  /\ lastOp.op = "join-file:joined"
  /\ Members(OpRoom(lastOp)) \ {lastOp.conn} # {}
  /\ lastOp.content # ""

\* C10: the roster of a room never holds two entries with the same userId,
\* and no roster broadcast lists a user id twice, whatever presence join,
\* leave, status, cursor and disconnect events the connections send.
C10_RosterUniqueUsers ==
  /\ \A roomKey \in DOMAIN roomUsers :
       \A i, j \in 1 .. Len(roomUsers[roomKey]) :
         i # j => roomUsers[roomKey][i].id # roomUsers[roomKey][j].id
  /\ \A e \in SentOf("presence:room-users") :
       \A i, j \in 1 .. Len(e.users) : i # j => e.users[i].id # e.users[j].id

\* C10 witness: two connections of user u1 and one of user u2 have joined
\* the roster room of p1, and one of u1's connections has since left it.
C10_Witness ==
  /\ getPresenceRoomKey("p1") \in DOMAIN roomUsers
  /\ Len(roomUsers[getPresenceRoomKey("p1")]) = 2
  /\ {"c2", "c3"} \subseteq Members(getPresenceRoomKey("p1"))
  /\ lastOp.op = "leave-room" /\ lastOp.conn = "c1"

\* the cursor events among those the last step emitted
CursorEvents == SentOf("presence:update") \cup SentOf("collab:cursor-update")

\* C11: a cursor event naming a file room is sent only to connections that
\* are members of that file room; a member of another file room of the
\* project, or of the project's roster room, that is not in the named room
\* is sent none.
C11_CursorOnlyToFileRoom ==
  \A e \in CursorEvents :
    e.to \in Members(getFileRoomKey(e.projectId, e.fileId))

\* C11 witness: a member of a file room sent presence:cursor for it and
\* another member was sent the event, while a third connection was a member
\* of another file room of the project and of its roster room.
C11_Witness ==
  /\ lastOp.op = "cursor"
  /\ lastOp.conn \in Members(OpRoom(lastOp))
  /\ SentOf("presence:update") # {}
  /\ \E x \in Conns \ Members(OpRoom(lastOp)) :
       /\ x \in Members(getPresenceRoomKey(lastOp.projectId))
       /\ \E fileId \in {"f1", "f2"} :
            x \in Members(getFileRoomKey(lastOp.projectId, fileId))

\* C12: when a connection disconnects, in every roster that has an entry of
\* its user that entry becomes offline with lastSeen stamped and the cursor
\* cleared, and that roster is sent to every connection left in its room;
\* the entries of other users stay as they were, no roster gains or loses an
\* entry, and no roster is sent for a room in which the user has no entry.
C12_DisconnectMarksOffline ==
  [][\A c \in Conns :
       (connected[c] /\ ~connected'[c]) =>
         /\ DOMAIN roomUsers' = DOMAIN roomUsers
         /\ \A k \in DOMAIN roomUsers :
              /\ Len(roomUsers'[k]) = Len(roomUsers[k])
              /\ \A n \in 1 .. Len(roomUsers[k]) :
                   IF roomUsers[k][n].id = user[c].sub
                   THEN /\ roomUsers'[k][n].id = user[c].sub
                        /\ roomUsers'[k][n].status = "offline"
                        /\ roomUsers'[k][n].lastSeen = now
                        /\ roomUsers'[k][n].cursor = NoCursor
                   ELSE roomUsers'[k][n] = roomUsers[k][n]
              /\ IF MapHas(roomUsers[k], user[c].sub)
                 THEN \A m \in IoTo(rooms', k) :
                        RoomUsersEvent(m, k[2], roomUsers'[k]) \in sent'
                 ELSE \A e \in sent' :
                        ~(e.ev = "presence:room-users" /\ e.projectId = k[2])
    ]_vars

\* C12 witness: a connection of u1 disconnected at clock 1 while u1 had an
\* entry in the rosters of p1 and p2 and u2 was online in the room of p1,
\* which was sent the roster.
C12_Witness ==
  /\ lastOp.op = "disconnect" /\ lastOp.conn = "c1"
  /\ now = 1
  /\ {getPresenceRoomKey("p1"), getPresenceRoomKey("p2")} \subseteq
       DOMAIN roomUsers
  /\ Len(roomUsers[getPresenceRoomKey("p1")]) = 2
  /\ \E n \in 1 .. 2 :
       /\ roomUsers[getPresenceRoomKey("p1")][n].id = "u2"
       /\ roomUsers[getPresenceRoomKey("p1")][n].status = "online"
  /\ \E e \in SentOf("presence:room-users") : e.to = "c2"

\* C13: when the cleanup sweep runs, every presence entry that has been
\* offline, with no reactivation, for at least the grace window is removed
\* from its roster.
C13_SweepRemovesExpired ==
  [][lastOp'.op = "cleanup-sweep" =>
       \A k \in DOMAIN roomUsers :
         \A n \in 1 .. Len(roomUsers[k]) :
           (/\ roomUsers[k][n].status = "offline"
            /\ roomUsers[k][n].lastSeen + PRESENCE_CLEANUP_INTERVAL <= now) =>
             (k \in DOMAIN roomUsers' =>
                ~MapHas(roomUsers'[k], roomUsers[k][n].id))]_vars

\* C14: a typing event is sent only to members of a file room of the
\* project other than its origin; a connection that is only in the
\* project's roster room is sent none.
C14_TypingOnlyToFileRoom ==
  \A e \in SentOf("presence:typing") :
    /\ e.to # lastOp.conn
    /\ \E fileId \in {"f1", "f2"} :
         e.to \in Members(getFileRoomKey(e.projectId, fileId))

\* C15: no cursor event, of presence:cursor or of collab:cursor, is sent to
\* the connection whose message caused it.
C15_CursorNotEchoed ==
  \A e \in CursorEvents : e.to # lastOp.conn

\* the tokens the middleware must refuse: missing, forged or expired, and
\* without a user id
BadTokens == {"", "bad", "nosub"}

\* the steps that are handlers run for a connection
HandlerOp(op) == op.op \notin {"init", "connect", "tick", "cleanup-sweep"}

\* C16: the middleware runs at most once per connection; a connection that
\* presented no token, a forged or expired token or a token without user id
\* is refused with an error, never gets an identity, never has a handler
\* run and is never sent a handler's event; every connection whose handlers
\* are registered, and every connection a handler runs for, has an
\* identity with a user id.
C16_AuthOncePerConnection ==
  /\ \A c \in Conns :
       /\ handshake[c].runs <= 1
       /\ handshake[c].token \in BadTokens =>
            (~connected[c] /\ user[c] = NoUser)
       /\ connected[c] => (handshake[c].runs = 1 /\ user[c].sub # "")
  /\ (lastOp.op = "connect" /\ StringOf(lastOp.arg) \in BadTokens) =>
       /\ ~lastOp.ok
       /\ \E e \in sent : sent = {e} /\ e.ev = "connect_error" /\
                           e.to = lastOp.conn
  /\ HandlerOp(lastOp) =>
       /\ handshake[lastOp.conn].runs = 1
       /\ handshake[lastOp.conn].token \notin BadTokens
       /\ user[lastOp.conn].sub # ""
  /\ \A e \in sent :
       e.ev # "connect_error" => handshake[e.to].token \notin BadTokens

\* C16 witness: a handler ran for an accepted connection after another
\* connection had been refused for a token without user id.
C16_Witness ==
  /\ lastOp.op = "join-room"
  /\ \E c \in Conns : handshake[c].runs = 1 /\ handshake[c].token = "nosub"
  /\ \E c \in Conns : handshake[c].runs = 1 /\ handshake[c].token = "bad"

\* C17: no step changes the identity attached to a connection that has
\* passed the handshake, and the userId, displayName and color of every
\* event a handler emits are those of the identity attached to the
\* connection the handler ran for, whatever identity the message claims;
\* every roster entry that is broadcast names an attached identity.
C17_IdentityFromConnection ==
  [][/\ \A c \in Conns : handshake[c].runs = 1 => user'[c] = user[c]
     /\ \A e \in sent' :
          "userId" \in e.fields =>
            /\ e.userId = user[lastOp'.conn].sub
            /\ "displayName" \in e.fields =>
                 e.displayName = user[lastOp'.conn].displayName
            /\ "color" \in e.fields =>
                 e.color = generateUserColor(user[lastOp'.conn].sub)
     /\ \A e \in sent' :
          e.ev = "presence:room-users" =>
            \A n \in 1 .. Len(e.users) :
              \E c \in Conns :
                /\ e.users[n].id = user[c].sub
                /\ e.users[n].displayName = user[c].displayName]_vars

\* C17 witness: a presence:cursor whose payload claims another user's id
\* was broadcast to a member of the file room.
C17_Witness ==
  /\ lastOp.op = "cursor"
  /\ StringOf(lastOp.arg) # user[lastOp.conn].sub
  /\ SentOf("presence:update") # {}

\* C18: a message with missing or malformed fields, of any type, is
\* answered with an error event to its sender, and nothing is sent to any
\* other connection.
C18_InvalidMessageAnswered ==
  (~lastOp.ok /\
   lastOp.op \in {"join-file:invalid", "edit:invalid", "leave-file:invalid",
                  "cursor:invalid", "collab-cursor:invalid",
                  "join-room:invalid", "leave-room:invalid",
                  "update-status:invalid", "typing:invalid"}) =>
    /\ \E e \in sent :
         e.to = lastOp.conn /\ e.ev \in {"collab:error", "presence:error"}
    /\ \A e \in sent : e.to = lastOp.conn
    /\ connected[lastOp.conn]

\* C19: when hydrate or getSnapshot fails during collab:join-file because
\* the project or the file is absent, the joiner is sent one error event
\* and nothing else is emitted; no room membership, no version and no
\* content changes, and the connection stays as open as it was.
C19_FailedJoinOnlyErrors ==
  [][(lastOp'.op \in {"join-file:hydrated", "join-file:read"} /\
      ~lastOp'.ok) =>
       /\ \A e \in sent' : e.ev = "collab:error" /\ e.to = lastOp'.conn
       /\ Cardinality(sent') = 1
       /\ rooms' = rooms
       /\ connected' = connected
       /\ versions' = versions
       /\ projects' = projects]_vars

\* C19 witness: a connection that is still open had its join of an absent
\* file of an existing project fail while it was a member of another file
\* room together with another connection.
C19_Witness ==
  /\ lastOp.op = "join-file:hydrated" /\ ~lastOp.ok
  /\ lastOp.projectId = "p1" /\ lastOp.fileId = "f3"
  /\ connected[lastOp.conn]
  /\ lastOp.conn \in Members(getRoomKey("p1", "f1"))
  /\ Cardinality(Members(getRoomKey("p1", "f1"))) = 2

\* C20: a collab:edit with well-formed ids and a version v >= 0 is handed to
\* applyOperation whatever v is, and an applyOperation that read the ref's
\* current version c and whose write succeeded stores max(c + 1, v) as the
\* ref's version and returns it to the handler, which acks it.
C20_VersionNeverRejected ==
  [][/\ \A i \in Slots :
          (tasks[i].kind = "edit" /\ tasks[i].pc = "saved" /\
           tasks'[i] = NoTask) =>
            LET c == tasks[i].currentVersion
                v == tasks[i].version
                k == key(tasks[i].projectId, tasks[i].fileId)
                expected == IF c + 1 >= v THEN c + 1 ELSE v
            IN  /\ k \in DOMAIN versions' /\ versions'[k] = expected
                /\ \E a \in sent' :
                     /\ a.ev = "collab:ack" /\ a.to = tasks[i].conn
                     /\ a.version = expected
     /\ (/\ lastOp'.op \in {"edit:invalid", "edit:start"}
         /\ IdError(lastOp'.conn, lastOp'.projectId, lastOp'.fileId) = ""
         /\ TypeOf(lastOp'.arg) = "number" /\ NumberOf(lastOp'.arg) >= 0) =>
          lastOp'.op = "edit:start"]_vars

\* C20 witness: an edit with version 1 committed on a ref whose version was
\* already 1 and was given version 2.
C20_Witness ==
  /\ lastOp.op = "edit:commit"
  /\ lastOp.arg = JsNum(1)
  /\ lastOp.version = 2

\* C21: hydrate on a ref that is cached returns without touching the cache
\* (the version is kept); hydrate on an uncached ref whose document exists
\* creates the entry with version 0 and touches no other entry; hydrate on a
\* ref whose project or file is missing fails and creates no entry.
C21_HydrateIdempotent ==
  [][/\ lastOp'.op = "join-file:start" =>
          /\ versions' = versions
          /\ \A i \in Slots :
               (tasks[i].kind = "idle" /\ tasks'[i].kind = "join") =>
                 ((tasks'[i].pc = "hydrate") =
                    (OpKey(lastOp') \notin DOMAIN versions))
     /\ lastOp'.op = "join-file:hydrated" =>
          /\ lastOp'.ok = FileExists(lastOp'.projectId, lastOp'.fileId)
          /\ DOMAIN versions' \subseteq DOMAIN versions \cup {OpKey(lastOp')}
          /\ \A x \in DOMAIN versions :
               x # OpKey(lastOp') =>
                 (x \in DOMAIN versions' /\ versions'[x] = versions[x])
          /\ (lastOp'.ok /\ OpKey(lastOp') \notin DOMAIN versions) =>
               /\ OpKey(lastOp') \in DOMAIN versions'
               /\ versions'[OpKey(lastOp')] = 0
          /\ ~lastOp'.ok => OpKey(lastOp') \notin DOMAIN versions']_vars

\* C21 witness: collab:join-file called hydrate on a ref cached at a version
\* of at least 1, and the handler went on to the snapshot with the version
\* kept.
C21_Witness ==
  /\ lastOp.op = "join-file:start"
  /\ OpKey(lastOp) \in DOMAIN versions
  /\ versions[OpKey(lastOp)] >= 1
  /\ \E i \in Slots :
       /\ tasks[i].kind = "join" /\ tasks[i].pc = "snapshot"
       /\ tasks[i].conn = lastOp.conn
       /\ key(tasks[i].projectId, tasks[i].fileId) = OpKey(lastOp)

\* C22: dispose of a ref removes that ref's entry from the cache, keeps every
\* other entry with its version, changes no durable content, no room and no
\* handler in flight and emits nothing; dispose of a ref without an entry
\* leaves the cache as it was.
C22_DisposeFrame ==
  [][lastOp'.op = "dispose" =>
       /\ DOMAIN versions' = DOMAIN versions \ {OpKey(lastOp')}
       /\ \A x \in DOMAIN versions' : versions'[x] = versions[x]
       /\ OpKey(lastOp') \notin DOMAIN versions => versions' = versions
       /\ projects' = projects /\ rooms' = rooms /\ tasks' = tasks
       /\ sent' = {}]_vars

\* C22 witness: an entry with version at least 1 was disposed while another
\* ref was cached, and the edited content of the disposed ref is still in
\* the store.
C22_Witness ==
  /\ lastOp.op = "dispose" /\ lastOp.ok
  /\ lastOp.version >= 1
  /\ DOMAIN versions # {}
  /\ projects[lastOp.projectId][lastOp.fileId] = "a"

\* C23: after presence:join-room the roster of the room has exactly one
\* entry of the joining user, with status online, the joiner is in the
\* room, and every member of the room, the joiner included, is sent one
\* room-users event listing every entry of the roster as {id, displayName},
\* in order; nobody else is sent one.
C23_JoinRoomBroadcastsRoster ==
  lastOp.op = "join-room" =>
    /\ getPresenceRoomKey(lastOp.projectId) \in DOMAIN roomUsers
    /\ LET roster == roomUsers[getPresenceRoomKey(lastOp.projectId)]
           room == Members(getPresenceRoomKey(lastOp.projectId))
       IN
       /\ Cardinality({n \in 1 .. Len(roster) :
                         roster[n].id = user[lastOp.conn].sub}) = 1
       /\ \A n \in 1 .. Len(roster) :
            roster[n].id = user[lastOp.conn].sub =>
              roster[n].status = "online"
       /\ lastOp.conn \in room
       /\ \A m \in room :
            Cardinality({e \in SentOf("presence:room-users") : e.to = m}) = 1
       /\ \A e \in sent :
            /\ e.ev = "presence:room-users"
            /\ e.to \in room
            /\ e.projectId = lastOp.projectId
            /\ Len(e.users) = Len(roster)
            /\ \A n \in 1 .. Len(roster) :
                 e.users[n] = [id |-> roster[n].id,
                               displayName |-> roster[n].displayName]

\* C23 witness: a user joined a roster room whose roster also lists a user
\* who is offline, with another connection in the room.
C23_Witness ==
  /\ lastOp.op = "join-room"
  /\ LET roster == roomUsers[getPresenceRoomKey(lastOp.projectId)] IN
       /\ Len(roster) = 2
       /\ \E n \in 1 .. 2 : roster[n].status = "offline"
  /\ Cardinality(Members(getPresenceRoomKey(lastOp.projectId))) >= 2

\* C24: presence:leave-room takes the connection, and no other, out of the
\* roster room; an entry of its user stays in the roster, offline, with
\* lastSeen stamped and without cursor, and the other entries stay as they
\* were; every member that remains is sent the roster, that entry included,
\* and the leaver is sent nothing.
C24_LeaveRoomMarksOffline ==
  [][lastOp'.op = "leave-room" =>
       LET c == lastOp'.conn
           k == getPresenceRoomKey(lastOp'.projectId)
           uid == user[lastOp'.conn].sub
           roster == IF k \in DOMAIN roomUsers' THEN roomUsers'[k] ELSE << >>
       IN
       /\ c \notin IoTo(rooms', k)
       /\ \A m \in Conns \ {c} : (m \in IoTo(rooms', k)) = (m \in IoTo(rooms, k))
       /\ DOMAIN roomUsers' = DOMAIN roomUsers
       /\ k \in DOMAIN roomUsers =>
            /\ Len(roomUsers'[k]) = Len(roomUsers[k])
            /\ \A n \in 1 .. Len(roomUsers[k]) :
                 IF roomUsers[k][n].id = uid
                 THEN /\ roomUsers'[k][n].id = uid
                      /\ roomUsers'[k][n].status = "offline"
                      /\ roomUsers'[k][n].lastSeen = now
                      /\ roomUsers'[k][n].cursor = NoCursor
                 ELSE roomUsers'[k][n] = roomUsers[k][n]
       /\ \A m \in IoTo(rooms', k) :
            \E e \in sent' :
              /\ e.ev = "presence:room-users" /\ e.to = m
              /\ Len(e.users) = Len(roster)
              /\ \A n \in 1 .. Len(roster) : e.users[n].id = roster[n].id
       /\ \A e \in sent' : e.to # c]_vars

\* C24 witness: a user with a cursor-free offline entry has just left a
\* roster room in which a connection of another user remains and was sent
\* the roster of two entries.
C24_Witness ==
  /\ lastOp.op = "leave-room" /\ lastOp.conn = "c2"
  /\ now = 1
  /\ "c1" \in Members(getPresenceRoomKey("p1"))
  /\ \E e \in SentOf("presence:room-users") :
       e.to = "c1" /\ Len(e.users) = 2
  /\ \E n \in 1 .. Len(roomUsers[getPresenceRoomKey("p1")]) :
       /\ roomUsers[getPresenceRoomKey("p1")][n].id = "u2"
       /\ roomUsers[getPresenceRoomKey("p1")][n].status = "offline"
       /\ roomUsers[getPresenceRoomKey("p1")][n].lastSeen = 1

\* C25: an entry becomes offline only in a presence:leave-room or disconnect
\* step, changes between online and away only in a presence:update-status
\* step, and has no cursor whenever its status is offline.
C25_PresenceStateMachine ==
  [][\A k \in DOMAIN roomUsers :
       \A n \in 1 .. Len(roomUsers[k]) :
         /\ roomUsers'[k][n].status = "offline" =>
              roomUsers'[k][n].cursor = NoCursor
         /\ (roomUsers[k][n].status # "offline" /\
             roomUsers'[k][n].status = "offline") =>
              lastOp'.op \in {"leave-room", "disconnect"}
         /\ (roomUsers[k][n].status \in {"online", "away"} /\
             roomUsers'[k][n].status \in {"online", "away"} /\
             roomUsers'[k][n].status # roomUsers[k][n].status) =>
              lastOp'.op = "update-status"]_vars

\* C26: a completed collab:join-file adds the joiner to the ref's file room
\* and changes no other membership; when the joiner was in the room already
\* the rooms stay as they were; and every remote-edit is sent exactly once
\* to each member of the ref's file room.
C26_RejoinSingleMembership ==
  [][/\ lastOp'.op = "join-file:joined" =>
          /\ DOMAIN rooms' = DOMAIN rooms \cup {OpRoom(lastOp')}
          /\ \A k \in DOMAIN rooms' :
               rooms'[k] = IF k = OpRoom(lastOp')
                           THEN IoTo(rooms, k) \cup {lastOp'.conn}
                           ELSE rooms[k]
          /\ lastOp'.arg = JsStr("rejoin") => rooms' = rooms
     /\ lastOp'.op = "edit:commit" =>
          \A m \in IoTo(rooms', OpRoom(lastOp')) :
            Cardinality({e \in sent' : e.ev = "collab:remote-edit" /\
                                       e.to = m}) = 1]_vars

\* C26 witness: a connection completed collab:join-file for a ref whose
\* file room it was in already, together with another connection.
C26_Witness ==
  /\ lastOp.op = "join-file:joined"
  /\ lastOp.arg = JsStr("rejoin")
  /\ Cardinality(Members(OpRoom(lastOp))) = 2

\* C27: collab:leave-file takes the connection out of the ref's file room
\* and sends user-left to every member that remains and not to the leaver;
\* remote-edit and cursor events for a ref go to members of its file room
\* only; and the leaver is still out of the room after the step that follows
\* its leave (no join it sent after leaving can have completed by then).
C27_LeaveStopsDelivery ==
  [][/\ lastOp'.op = "leave-file" =>
          /\ lastOp'.conn \notin IoTo(rooms', OpRoom(lastOp'))
          /\ \A m \in IoTo(rooms', OpRoom(lastOp')) :
               \E e \in sent' : e.ev = "collab:user-left" /\ e.to = m /\
                                e.userId = user[lastOp'.conn].sub
          /\ \A e \in sent' :
               e.ev = "collab:user-left" /\ e.to # lastOp'.conn
     /\ \A e \in sent' :
          e.ev \in {"collab:remote-edit", "collab:cursor-update",
                    "presence:update"} =>
            e.to \in IoTo(rooms', getRoomKey(e.projectId, e.fileId))
     /\ lastOp.op = "leave-file" =>
          lastOp.conn \notin IoTo(rooms', OpRoom(lastOp))]_vars

\* C28: a disconnect leaves every collab:edit that is in flight as it is;
\* the durable write of an edit whose origin has disconnected still stores
\* its content, and its commit still stores a version above the one the
\* edit started from and sends the remote-edit, with that version and the
\* content, to every member left in the file room.
C28_DisconnectDoesNotCancel ==
  [][/\ \A c \in Conns :
          (connected[c] /\ ~connected'[c]) =>
            \A i \in Slots : tasks[i].kind = "edit" => tasks'[i] = tasks[i]
     /\ \A i \in Slots :
          (tasks[i].kind = "edit" /\ ~connected[tasks[i].conn]) =>
            /\ (tasks[i].pc = "save" /\ tasks'[i].pc = "saved") =>
                 projects'[tasks[i].projectId][tasks[i].fileId] =
                   tasks[i].content
            /\ (tasks[i].pc = "saved" /\ tasks'[i] = NoTask) =>
                 LET k == key(tasks[i].projectId, tasks[i].fileId) IN
                 /\ k \in DOMAIN versions'
                 /\ versions'[k] > tasks[i].currentVersion
                 /\ \A m \in IoTo(rooms', getRoomKey(tasks[i].projectId,
                                                     tasks[i].fileId)) :
                      \E e \in sent' :
                        /\ e.ev = "collab:remote-edit" /\ e.to = m
                        /\ e.content = tasks[i].content
                        /\ e.version = versions'[k]]_vars

\* C28 witness: an edit committed after its origin had disconnected, and a
\* member left in the file room was sent the remote-edit.
C28_Witness ==
  /\ lastOp.op = "edit:commit"
  /\ ~connected[lastOp.conn]
  /\ SentOf("collab:remote-edit") # {}
  /\ projects[lastOp.projectId][lastOp.fileId] = lastOp.content

\* C29: when a remote-edit has just been broadcast to a member of a ref's
\* file room and no edit on the ref is in flight, the broadcast content is
\* the ref's durable content.
C29_LastBroadcastIsDurable ==
  (/\ lastOp.op = "edit:commit"
   /\ \E e \in SentOf("collab:remote-edit") : e.content = lastOp.content
   /\ \A i \in Slots :
        ~(tasks[i].kind = "edit" /\
          key(tasks[i].projectId, tasks[i].fileId) = OpKey(lastOp))) =>
    projects[lastOp.projectId][lastOp.fileId] = lastOp.content

\* C30: a connection is in at most one file room and in at most one roster
\* room of a project.
C30_OneRoomPerProject ==
  \A c \in Conns :
    \A projectId \in {"p1", "p2"} :
      /\ Cardinality({k \in DOMAIN rooms :
                        k[1] = "file" /\ k[2] = projectId /\
                        c \in rooms[k]}) <= 1
      /\ Cardinality({k \in DOMAIN rooms :
                        k[1] = "room" /\ k[2] = projectId /\
                        c \in rooms[k]}) <= 1

\* C31: the four parties compute the same color for a user id: any two
\* parties that have computed the color of the user hold the same value.
C31_SameColorEverywhere ==
  \A a \in Parties, b \in Parties :
    (color[a] # "" /\ color[b] # "") => color[a] = color[b]

\* C32: a connection that was open when the shutdown signal arrived and is
\* closed since then was sent the shutdown notice.
C32_NoticeBeforeClose ==
  \A c \in server.openAtSignal : ~connected[c] => c \in server.noticed

\* C33: the stored content of a ref changes only in the step in which the
\* write of an applyOperation on that ref is applied.
C33_ContentOnlyThroughEngine ==
  [][\A projectId \in DOMAIN projects :
       \A fileId \in DOMAIN projects[projectId] :
         projects'[projectId][fileId] # projects[projectId][fileId] =>
           /\ lastOp'.op = "edit:save"
           /\ lastOp'.projectId = projectId
           /\ lastOp'.fileId = fileId]_vars

\* C37: a snapshot is delivered to a joining connection, and the write and
\* the commit of an edit happen, only for a user who is the owner or a
\* collaborator of the project.
C37_SocketAccessControl ==
  lastOp.op \in {"join-file:joined", "edit:save", "edit:commit"} =>
    hasProjectAccess(lastOp.projectId, user[lastOp.conn].sub)

\* C34: when a hydrate that was waiting for its document load completes, no
\* ref's cached version is lower than it was just before.
C34_HydrateKeepsVersion ==
  [][lastOp'.op = "join-file:hydrated" =>
       \A k \in DOMAIN versions :
         k \in DOMAIN versions' /\ versions'[k] >= versions[k]]_vars

\* C35: when a connection completes collab:join-file for a ref and no edit
\* on the ref is in flight, the content of the snapshot it is sent is the
\* ref's durable content.
C35_JoinerSeesDurableContent ==
  (/\ lastOp.op = "join-file:joined"
   /\ \A i \in Slots :
        ~(tasks[i].kind = "edit" /\
          key(tasks[i].projectId, tasks[i].fileId) = OpKey(lastOp))) =>
    \A e \in SentOf("collab:joined") :
      e.content = projects[lastOp.projectId][lastOp.fileId]

\* C36: a connection enters a file room only in the step that completes its
\* collab:join-file for that ref, and a roster room only in the step of its
\* presence:join-room for that project.
C36_MembershipOnlyThroughJoins ==
  [][\A k \in DOMAIN rooms' :
       \A c \in rooms'[k] \ IoTo(rooms, k) :
         /\ k[1] = "file" =>
              /\ lastOp'.op = "join-file:joined"
              /\ lastOp'.conn = c
              /\ OpRoom(lastOp') = k
         /\ k[1] = "room" =>
              /\ lastOp'.op = "join-room"
              /\ lastOp'.conn = c
              /\ getPresenceRoomKey(lastOp'.projectId) = k]_vars

\* C38: when a connection that is in a roster room leaves it or disconnects
\* and the step turns its user's entry in that room offline, no connection
\* of that user is left in the room.
C38_OfflineOnlyWithoutConnections ==
  [][lastOp'.op \in {"leave-room", "disconnect"} =>
       \A k \in DOMAIN roomUsers :
         \A n \in 1 .. Len(roomUsers[k]) :
           (/\ lastOp'.conn \in IoTo(rooms, k)
            /\ roomUsers[k][n].status # "offline"
            /\ roomUsers'[k][n].status = "offline") =>
             \A c \in IoTo(rooms', k) :
               user[c].sub # roomUsers[k][n].id]_vars

\* C39: an entry of a roster is online or away only while a connection of
\* its user is a member of the roster room.
C39_OnlineOnlyWithConnection ==
  \A k \in DOMAIN roomUsers :
    \A n \in 1 .. Len(roomUsers[k]) :
      roomUsers[k][n].status \in {"online", "away"} =>
        \E c \in Members(k) : user[c].sub = roomUsers[k][n].id

\* C40: the timer of a client that sends its collab:edit is started only by
\* a local change of its user, never by applying a join snapshot or a
\* remote edit; so a client has sent at most as many collab:edit messages
\* as its user made local changes.
C40_EditsOnlyFromUserInput ==
  [][\A c \in Conns :
       /\ (editor'[c].timer /\ ~editor[c].timer) => lastOp'.op = "client:type"
       /\ editor'[c].edits <= editor'[c].typed]_vars

====
